---------------------------- MODULE Spec2Model ----------------------------
(***************************************************************************)
(* A model of the dice generator of GNU Backgammon (dice.c): the generator *)
(* context, its seeding operations, the Blum-Blum-Shub engine, the file    *)
(* replay backend and RollDice with its fallback on RNG_MERSENNE.          *)
(*                                                                         *)
(* Number representations.  TLC's integers are 32-bit signed, the code's   *)
(* raw values are 32-bit unsigned.  An unsigned 32-bit value r is the      *)
(* record [h |-> r \div 2, b |-> r % 2]; h is at most 2^31 - 1.  An mpz_t  *)
(* that holds a seed is the sequence of its 32-bit limbs, least            *)
(* significant first, without leading zero limbs (what mpz_export gives).  *)
(* The BBS modulus and factors are plain integers: the model only uses     *)
(* moduli below 2^15, so that a square fits TLC's integers.                *)
(***************************************************************************)
EXTENDS Integers, Sequences, FiniteSets, TLC

(***************************************************************************)
(* Bounds of the model.                                                    *)
(***************************************************************************)
\* RollDice is not taken once the usage counter has reached MaxCount.
MaxCount == 4

(***************************************************************************)
(* 32-bit unsigned values.                                                 *)
(***************************************************************************)
U32(h, b) == [h |-> h, b |-> b]

U32Zero == U32(0, 0)

U32One == U32(0, 1)

\* UINT_MAX, 4294967295
U32Max == U32(2147483647, 1)

\* k as a 32-bit value, for 0 <= k < 2^31
U32FromNat(k) == U32(k \div 2, k % 2)

U32Eq(x, y) == x.h = y.h /\ x.b = y.b

U32Geq(x, y) == x.h > y.h \/ (x.h = y.h /\ x.b >= y.b)

\* x + 1 in unsigned 32-bit arithmetic
U32Inc(x) ==
    IF x.b = 0 THEN U32(x.h, 1)
    ELSE IF x.h = 2147483647 THEN U32Zero
    ELSE U32(x.h + 1, 0)

\* x / d for an even d: floor((2h+b) / d) = floor(h / (d/2))
U32DivEven(x, d) == x.h \div (d \div 2)

\* x % m for a small positive m
U32Mod(x, m) == (2 * (x.h % m) + x.b) % m

\* the least significant bit
U32Low(x) == x.b

\* x + y as [carry, sum] in unsigned 32-bit arithmetic
U32Add(x, y) ==
    LET sb == x.b + y.b
        cb == sb \div 2
        over == x.h > 2147483647 - y.h - cb
    IN  [carry |-> IF over THEN 1 ELSE 0,
         sum |-> U32(IF over THEN x.h - (2147483647 - y.h - cb) - 1
                     ELSE x.h + y.h + cb, sb % 2)]

(***************************************************************************)
(* mpz_t values holding seeds: sequences of 32-bit limbs.                  *)
(***************************************************************************)
MpZero == << >>

\* mpz_set_ui / mpz_import of one word
MpFromU32(x) == IF U32Eq(x, U32Zero) THEN << >> ELSE << x >>

\* mpz_get_ui, cast to unsigned int: the low 32 bits
MpLowU32(n) == IF Len(n) = 0 THEN U32Zero ELSE n[1]

\* mpz_cmp_ui(n, UINT_MAX) > 0
MpAboveUIntMax(n) == Len(n) > 1

\* mpz_sgn(n) of a non-negative value
MpSgn(n) == IF Len(n) = 0 THEN 0 ELSE 1

\* mpz_add_ui(n, n, 1)
RECURSIVE MpInc(_)
MpInc(n) ==
    IF Len(n) = 0 THEN << U32One >>
    ELSE IF U32Eq(n[1], U32Max) THEN << U32Zero >> \o MpInc(Tail(n))
    ELSE << U32Inc(n[1]) >> \o Tail(n)

\* n mod m for a small positive m (2^32 mod m taken limb by limb)
RECURSIVE MpMod(_, _)
MpMod(n, m) ==
    IF Len(n) = 0 THEN 0
    ELSE LET pow32 == (((65536 % m) * (65536 % m)) % m)
         IN  (U32Mod(n[1], m) + pow32 * MpMod(Tail(n), m)) % m

\* a small natural number as an mpz
MpFromNat(k) == MpFromU32(U32FromNat(k))

\* the value of an mpz that fits one limb below 2^31, else -1
MpToNat(n) ==
    IF Len(n) = 0 THEN 0
    ELSE IF Len(n) = 1 /\ n[1].h < 1073741824 THEN 2 * n[1].h + n[1].b
    ELSE -1

\* (unsigned int) (mpz_get_ui(n) % UINT_MAX), unsigned long being 64 bits wide:
\* the low two limbs lo + 2^32 hi reduce to (lo + hi) mod (2^32 - 1)
MpGetUIModUIntMax(n) ==
    LET lo == MpLowU32(n)
        hi == IF Len(n) > 1 THEN n[2] ELSE U32Zero
        a == U32Add(lo, hi)
        s == IF a.carry = 1 THEN U32Inc(a.sum) ELSE a.sum
    IN  IF U32Eq(s, U32Max) THEN U32Zero ELSE s

(***************************************************************************)
(* The raw generators of lib/ (isaac.c, SFMT.c, md5.c).  Their code is not *)
(* part of the sources at hand; each is a deterministic stream of 32-bit   *)
(* words fixed by its key, drawn from a table that holds both ends of each *)
(* of the six sampler buckets and the two ends of the rejected range.      *)
(***************************************************************************)
RawTable ==
    << U32(0, 0),          U32(2147483646, 0), U32(357913940, 1),
       U32(357913941, 0),  U32(715827881, 1),  U32(2147483647, 1),
       U32(715827882, 0),  U32(1073741822, 1), U32(1073741823, 0),
       U32(1431655763, 1), U32(1431655764, 0), U32(1789569704, 1),
       U32(1789569705, 0), U32(2147483645, 1) >>

RawN == Len(RawTable)

\* the key arrays randrsl[RANDSIZ] and tempmtkey[SFMT_N32]: the leading
\* words, and the word that fills the rest of the array
KeyArray(prefix, rest) == [prefix |-> prefix, rest |-> rest]

RANDSIZ == 256

SFMT_N32 == 624

RECURSIVE KeySum(_, _)
KeySum(prefix, i) ==
    IF Len(prefix) = 0 THEN 0
    ELSE (i * U32Mod(prefix[1], RawN) + KeySum(Tail(prefix), i + 1)) % RawN

KeyHash(key) == (KeySum(key.prefix, 1) + 3 * U32Mod(key.rest, RawN)) % RawN

\* mpz_export into an array of len words, the rest of the array zeroed
KeyFromLimbs(limbs, len) ==
    KeyArray(SubSeq(limbs, 1, IF Len(limbs) < len THEN Len(limbs) ELSE len), U32Zero)

\* the zeroed randctx of a new context
ISAACZero == [seeded |-> FALSE, key |-> KeyArray(<< >>, U32Zero), cnt |-> 0]

\* irandinit(&rc, TRUE) on the key in randrsl
irandinit(key) == [seeded |-> TRUE, key |-> key, cnt |-> 0]

\* irand(&rc): the next word and the state after it
irand(rc) ==
    [rc |-> [rc EXCEPT !.cnt = (rc.cnt + 1) % RawN],
     r  |-> RawTable[((KeyHash(rc.key) + (IF rc.seeded THEN 1 ELSE 0) + rc.cnt) % RawN) + 1]]

\* the sfmt_t of a new context: zeroed, idx = SFMT_N32 + 1
SFMTZero == [init |-> "none", key |-> KeyArray(<< >>, U32Zero), cnt |-> 0]

\* sfmt_init_gen_rand(&sfmt, n)
sfmt_init_gen_rand(n) == [init |-> "gen_rand", key |-> KeyArray(<< n >>, U32Zero), cnt |-> 0]

\* sfmt_init_by_array(&sfmt, tempmtkey, SFMT_N32)
sfmt_init_by_array(key) == [init |-> "by_array", key |-> key, cnt |-> 0]

\* sfmt_genrand_uint32(&sfmt); the zeroed state yields zero words only
sfmt_genrand_uint32(sfmt) ==
    [sfmt |-> [sfmt EXCEPT !.cnt = (sfmt.cnt + 1) % RawN],
     r    |-> IF sfmt.init = "none" THEN U32Zero
              ELSE RawTable[((KeyHash(sfmt.key) + (IF sfmt.init = "by_array" THEN 5 ELSE 2)
                              + 3 * sfmt.cnt) % RawN) + 1]]

\* md5_buffer(&nMD5, 4, &h): the words h.an[0] and h.an[1] of the digest
md5_buffer(nMD5) ==
    LET i == U32Mod(nMD5, RawN)
    IN  << RawTable[i + 1], RawTable[((5 * i + 3) % RawN) + 1] >>

(***************************************************************************)
(* The Blum, Blum and Shub engine.  zSeed is an mpz (limbs), zModulus a    *)
(* plain integer.                                                          *)
(***************************************************************************)
Abs(x) == IF x < 0 THEN 0 - x ELSE x

\* mpz_probab_prime_p(x, 10) != 0, exact on the small values of the model
IsPrime(x) == x >= 2 /\ \A d \in 2..(x - 1) : d * d > x \/ x % d # 0

\* BBSGood(x): x = 3 (mod 4), x >= 19, x prime; mpz_get_ui takes |x|
BBSGood(x) == (Abs(x) % 4 = 3) /\ x >= 19 /\ IsPrime(x)

\* BBSFindGood(x): the first good value above x
RECURSIVE BBSFindGood(_)
BBSFindGood(x) == IF BBSGood(x + 1) THEN x + 1 ELSE BBSFindGood(x + 1)

\* mpz_powm_ui(z, z, 2, m) on a reduced z; the modulus is taken by magnitude
SquareMod(z, m) == (z * z) % Abs(m)

\* BBSGetBit: square the seed modulo the modulus, return the low bit
BBSGetBit(zSeed, zModulus) ==
    LET s == SquareMod(MpMod(zSeed, Abs(zModulus)), zModulus)
    IN  [zSeed |-> MpFromNat(s), bit |-> s % 2]

\* TritStep with case 4 going back to state 1 where the code goes to 2
TritStepCross(state, bit) ==
    CASE state = 0 -> [ret |-> FALSE, state |-> bit + 1, trit |-> 0]
      [] state = 1 -> IF bit = 1 THEN [ret |-> FALSE, state |-> 3, trit |-> 0]
                      ELSE [ret |-> TRUE, state |-> 1, trit |-> 0]
      [] state = 2 -> IF bit = 1 THEN [ret |-> TRUE, state |-> 2, trit |-> 2]
                      ELSE [ret |-> FALSE, state |-> 4, trit |-> 0]
      [] state = 3 -> IF bit = 1 THEN [ret |-> TRUE, state |-> 3, trit |-> 1]
                      ELSE [ret |-> FALSE, state |-> 1, trit |-> 0]
      [] state = 4 -> IF bit = 1 THEN [ret |-> FALSE, state |-> 1, trit |-> 0]
                      ELSE [ret |-> TRUE, state |-> 4, trit |-> 1]

\* TritStep with case 3 returning 1 on either bit
TritStepEarly(state, bit) ==
    CASE state = 0 -> [ret |-> FALSE, state |-> bit + 1, trit |-> 0]
      [] state = 1 -> IF bit = 1 THEN [ret |-> FALSE, state |-> 3, trit |-> 0]
                      ELSE [ret |-> TRUE, state |-> 1, trit |-> 0]
      [] state = 2 -> IF bit = 1 THEN [ret |-> TRUE, state |-> 2, trit |-> 2]
                      ELSE [ret |-> FALSE, state |-> 4, trit |-> 0]
      [] state = 3 -> [ret |-> TRUE, state |-> 3, trit |-> 1]
      [] state = 4 -> IF bit = 1 THEN [ret |-> FALSE, state |-> 2, trit |-> 0]
                      ELSE [ret |-> TRUE, state |-> 4, trit |-> 1]

\* TritStep with case 3 staying in state 3 on bit 0
TritStepStay(state, bit) ==
    CASE state = 0 -> [ret |-> FALSE, state |-> bit + 1, trit |-> 0]
      [] state = 1 -> IF bit = 1 THEN [ret |-> FALSE, state |-> 3, trit |-> 0]
                      ELSE [ret |-> TRUE, state |-> 1, trit |-> 0]
      [] state = 2 -> IF bit = 1 THEN [ret |-> TRUE, state |-> 2, trit |-> 2]
                      ELSE [ret |-> FALSE, state |-> 4, trit |-> 0]
      [] state = 3 -> IF bit = 1 THEN [ret |-> TRUE, state |-> 3, trit |-> 1]
                      ELSE [ret |-> FALSE, state |-> 3, trit |-> 0]
      [] state = 4 -> IF bit = 1 THEN [ret |-> FALSE, state |-> 2, trit |-> 0]
                      ELSE [ret |-> TRUE, state |-> 4, trit |-> 1]

\* TritStep with case 3 returning 0 where the code returns 1
TritStepSkew(state, bit) ==
    CASE state = 0 -> [ret |-> FALSE, state |-> bit + 1, trit |-> 0]
      [] state = 1 -> IF bit = 1 THEN [ret |-> FALSE, state |-> 3, trit |-> 0]
                      ELSE [ret |-> TRUE, state |-> 1, trit |-> 0]
      [] state = 2 -> IF bit = 1 THEN [ret |-> TRUE, state |-> 2, trit |-> 2]
                      ELSE [ret |-> FALSE, state |-> 4, trit |-> 0]
      [] state = 3 -> IF bit = 1 THEN [ret |-> TRUE, state |-> 3, trit |-> 0]
                      ELSE [ret |-> FALSE, state |-> 1, trit |-> 0]
      [] state = 4 -> IF bit = 1 THEN [ret |-> FALSE, state |-> 2, trit |-> 0]
                      ELSE [ret |-> TRUE, state |-> 4, trit |-> 1]

\* One turn of the switch of BBSGetTrit: from state, on the bit drawn,
\* either the next state or the trit returned.
TritStep(state, bit) ==
    CASE state = 0 -> [ret |-> FALSE, state |-> bit + 1, trit |-> 0]
      [] state = 1 -> IF bit = 1 THEN [ret |-> FALSE, state |-> 3, trit |-> 0]
                      ELSE [ret |-> TRUE, state |-> 1, trit |-> 0]
      [] state = 2 -> IF bit = 1 THEN [ret |-> TRUE, state |-> 2, trit |-> 2]
                      ELSE [ret |-> FALSE, state |-> 4, trit |-> 0]
      [] state = 3 -> IF bit = 1 THEN [ret |-> TRUE, state |-> 3, trit |-> 1]
                      ELSE [ret |-> FALSE, state |-> 1, trit |-> 0]
      [] state = 4 -> IF bit = 1 THEN [ret |-> FALSE, state |-> 2, trit |-> 0]
                      ELSE [ret |-> TRUE, state |-> 4, trit |-> 1]

\* BBSGetTrit: run the automaton from state 0 on the bits of BBSGetBit.
\* pre collects the seed each bit was drawn from.  The loop never returns
\* when a (state, seed) pair recurs: hangs is then TRUE.
RECURSIVE BBSTritLoop(_, _, _, _, _)
BBSTritLoop(state, zSeed, zModulus, seen, pre) ==
    IF << state, zSeed >> \in seen
    THEN [hangs |-> TRUE, zSeed |-> zSeed, trit |-> 0, pre |-> pre]
    ELSE LET g == BBSGetBit(zSeed, zModulus)
             t == TritStep(state, g.bit)
         IN  IF t.ret
             THEN [hangs |-> FALSE, zSeed |-> g.zSeed, trit |-> t.trit,
                   pre |-> Append(pre, zSeed)]
             ELSE BBSTritLoop(t.state, g.zSeed, zModulus,
                              seen \cup {<< state, zSeed >>}, Append(pre, zSeed))

BBSGetTrit(zSeed, zModulus) == BBSTritLoop(0, zSeed, zModulus, {}, << >>)

\* the loop of BBSGetTrit on bits given in advance, from state on: whether
\* it has returned by the end of bits, the trit, the bits it has used
RECURSIVE TritOnBits(_, _, _)
TritOnBits(state, bits, used) ==
    IF bits = << >> THEN [ended |-> FALSE, trit |-> 0, used |-> used]
    ELSE LET t == TritStep(state, Head(bits))
         IN  IF t.ret THEN [ended |-> TRUE, trit |-> t.trit, used |-> used + 1]
             ELSE TritOnBits(t.state, Tail(bits), used + 1)

\* BBSCheck: 0 unless the seed is 0 or 1
BBSCheck(zSeed) == IF zSeed # MpZero /\ zSeed # MpFromNat(1) THEN 0 ELSE -1

\* z squared k times modulo m
RECURSIVE SquareTimes(_, _, _)
SquareTimes(z, k, m) == IF k = 0 THEN z ELSE SquareTimes(SquareMod(z, m), k - 1, m)

\* the inner loop of BBSCheckInitialSeed: the value of i when it ends
RECURSIVE CycleScan(_, _, _, _)
CycleScan(z, zCycle, i, m) ==
    IF i = 16 THEN 16
    ELSE IF SquareMod(z, m) = zCycle THEN i
    ELSE CycleScan(SquareMod(z, m), zCycle, i + 1, m)

\* the attempts of BBSCheckInitialSeed from iAttempt on
RECURSIVE BBSAttempts(_, _, _)
BBSAttempts(zSeed, zModulus, iAttempt) ==
    IF iAttempt = 32 THEN [zSeed |-> zSeed, iAttempt |-> 32]
    ELSE LET zCycle == SquareTimes(MpMod(zSeed, Abs(zModulus)), 8, zModulus)
         IN  IF CycleScan(zCycle, zCycle, 0, zModulus) = 16
             THEN [zSeed |-> zSeed, iAttempt |-> iAttempt]
             ELSE BBSAttempts(MpInc(zSeed), zModulus, iAttempt + 1)

\* BBSCheckInitialSeed that leaves the seed alone when it fails
BBSCheckInitialSeedKeep(zSeed, zModulus) ==
    IF MpSgn(zSeed) < 1 THEN [zSeed |-> MpZero, ret |-> -1, iAttempt |-> 0]
    ELSE LET a == BBSAttempts(zSeed, zModulus, 0)
         IN  IF a.iAttempt = 32 THEN [zSeed |-> a.zSeed, ret |-> -1, iAttempt |-> 32]
             ELSE [zSeed |-> a.zSeed, ret |-> 0, iAttempt |-> a.iAttempt]

\* BBSCheckInitialSeed: the seed it leaves and its result; a failure
\* (BBSInitialSeedFailure) leaves the seed zero
BBSCheckInitialSeed(zSeed, zModulus) ==
    IF MpSgn(zSeed) < 1 THEN [zSeed |-> MpZero, ret |-> -1, iAttempt |-> 0]
    ELSE LET a == BBSAttempts(zSeed, zModulus, 0)
         IN  IF a.iAttempt = 32 THEN [zSeed |-> MpZero, ret |-> -1, iAttempt |-> 32]
             ELSE [zSeed |-> a.zSeed, ret |-> 0, iAttempt |-> a.iAttempt]

(***************************************************************************)
(* The generator context (struct rngcontext) and the inputs of the model.  *)
(***************************************************************************)
RNG_BBS == "RNG_BBS"
RNG_ISAAC == "RNG_ISAAC"
RNG_MD5 == "RNG_MD5"
RNG_MERSENNE == "RNG_MERSENNE"
RNG_MANUAL == "RNG_MANUAL"
RNG_RANDOM_DOT_ORG == "RNG_RANDOM_DOT_ORG"
RNG_FILE == "RNG_FILE"

\* enum rng
Rngs == {RNG_BBS, RNG_ISAAC, RNG_MD5, RNG_MERSENNE, RNG_MANUAL,
         RNG_RANDOM_DOT_ORG, RNG_FILE}

\* the contexts of the model
CtxIds == {1, 2}

\* a FILE *: NULL, an open stream at an offset, or a stream that was closed
FileNull == [st |-> "null", name |-> "", pos |-> 0]

\* the dice files of the model: their bytes ('1' is 49), and whether a
\* read succeeds at all ("dir" opens but cannot be read)
FileBytes ==
    [name \in {"f1936", "f52", "junk", "dir"} |->
        CASE name = "f1936" -> << 49, 57, 51, 54 >>
          [] name = "f52"   -> << 53, 50, 10 >>
          [] name = "junk"  -> << 57, 10 >>
          [] name = "dir"   -> << >>]

FileReadable(name) == name # "dir"

\* the names OpenDiceFile is given; "missing" does not exist
FileNames == {"f1936", "f52", "junk", "dir", "missing"}

\* the values InitRNGSeed is given
SeedValues == {U32Zero, U32(1, 1)}

\* a decimal string handed to InitRNGSeedLong: unparsable, or a sign and a magnitude
SeedStr(ok, neg, mag) == [ok |-> ok, neg |-> neg, mag |-> mag]

SeedStrings ==
    {SeedStr(FALSE, FALSE, MpZero),                      \* "12x"
     SeedStr(TRUE, TRUE, << U32(2, 1) >>),               \* "-5"
     SeedStr(TRUE, FALSE, << U32(1, 1) >>),              \* "3"
     SeedStr(TRUE, FALSE, << U32(2, 1), U32(0, 1) >>)}   \* "4294967301"

\* a decimal string handed to InitRNGBBSModulus or InitRNGBBSFactors:
\* NULL, unparsable, or a small integer
NumStr(null, ok, val) == [null |-> null, ok |-> ok, val |-> val]

StrNull == NumStr(TRUE, FALSE, 0)

StrBad == NumStr(FALSE, FALSE, 0)

Num(v) == NumStr(FALSE, TRUE, v)

\* the factor strings and the modulus strings of the calls of the program
FactorPairs == {<< Num(4), Num(9) >>, << Num(23), Num(23) >>, << StrBad, Num(9) >>}

ModulusStrings == {StrBad, Num(0), Num(21), Num(437)}

\* what /dev/urandom delivers to RNGSystemSeed (64 bytes as an mpz), or
\* its absence
EntropyNone == [avail |-> FALSE, mpzn |-> MpZero]

Entropy == {EntropyNone,
            [avail |-> TRUE, mpzn |-> << U32(3, 0), U32(1, 0) >>]}

\* the clock value RNGSystemSeed folds to 32 bits
ClockValues == {U32(4, 1)}

\* the context InitRNG returns when fSet is FALSE
NewContext ==
    [fDice |-> FileNull, szDiceFilename |-> "(null)",
     rc |-> ISAACZero, nMD5 |-> U32Zero, sfmt |-> SFMTZero,
     zModulus |-> 0, zSeed |-> MpZero, fZInit |-> FALSE,
     c |-> 0, nz |-> MpZero, n |-> U32Zero]

\* what an operation on a context yields: the context after it, whether
\* the process died in it (an assertion, a division by zero), its result
Done(c, ret) == [ctx |-> c, crash |-> FALSE, ret |-> ret]

Crash(c) == [ctx |-> c, crash |-> TRUE, ret |-> 0]

(***************************************************************************)
(* Seeding.                                                                *)
(***************************************************************************)
\* the RNG_BBS branch of InitRNGSeed and InitRNGSeedMP: g_assert(fZInit),
\* store the seed, BBSCheckInitialSeed (which divides by the modulus)
SeedBBS(c, zSeed) ==
    IF ~c.fZInit THEN Crash(c)
    ELSE IF MpSgn(zSeed) >= 1 /\ c.zModulus = 0 THEN Crash(c)
    ELSE LET r == BBSCheckInitialSeed(zSeed, c.zModulus)
         IN  Done([c EXCEPT !.zSeed = r.zSeed], r.ret)

\* InitRNGSeed that leaves the MD5 seed alone
InitRNGSeedKeepMD5(n, rngx, rngctx) ==
    LET c == [rngctx EXCEPT !.n = n, !.c = 0]
    IN  CASE rngx = RNG_BBS -> SeedBBS(c, MpFromU32(n))
          [] rngx = RNG_ISAAC -> Done([c EXCEPT !.rc = irandinit(KeyArray(<< >>, n))], 0)
          [] rngx = RNG_MERSENNE -> Done([c EXCEPT !.sfmt = sfmt_init_gen_rand(n)], 0)
          [] OTHER -> Done(c, 0)

\* InitRNGSeed(n, rngx, rngctx)
InitRNGSeed(n, rngx, rngctx) ==
    LET c == [rngctx EXCEPT !.n = n, !.c = 0]
    IN  CASE rngx = RNG_BBS -> SeedBBS(c, MpFromU32(n))
          [] rngx = RNG_ISAAC -> Done([c EXCEPT !.rc = irandinit(KeyArray(<< >>, n))], 0)
          [] rngx = RNG_MD5 -> Done([c EXCEPT !.nMD5 = n], 0)
          [] rngx = RNG_MERSENNE -> Done([c EXCEPT !.sfmt = sfmt_init_gen_rand(n)], 0)
          [] OTHER -> Done(c, 0)

\* InitRNGSeedMP that leaves the counter alone
InitRNGSeedMPKeepCount(n, rngx, rngctx) ==
    LET c == [rngctx EXCEPT !.nz = n]
    IN  CASE rngx = RNG_MERSENNE ->
               IF MpAboveUIntMax(n)
               THEN Done([c EXCEPT !.sfmt = sfmt_init_by_array(KeyFromLimbs(n, SFMT_N32))], 0)
               ELSE Done([c EXCEPT !.sfmt = sfmt_init_gen_rand(MpLowU32(n)),
                                   !.n = MpLowU32(n)], 0)
          [] rngx = RNG_MD5 ->
               Done([c EXCEPT !.nMD5 = MpGetUIModUIntMax(n), !.n = MpGetUIModUIntMax(n)], 0)
          [] rngx = RNG_BBS -> SeedBBS(c, n)
          [] rngx = RNG_ISAAC ->
               Done([c EXCEPT !.rc = irandinit(KeyFromLimbs(n, RANDSIZ))], 0)
          [] OTHER -> Done(c, 0)

\* InitRNGSeedMP that hands RNG_MERSENNE the low word of every seed
InitRNGSeedMPTruncate(n, rngx, rngctx) ==
    LET c == [rngctx EXCEPT !.nz = n, !.c = 0]
    IN  CASE rngx = RNG_MERSENNE -> InitRNGSeed(MpLowU32(n), rngx, c)
          [] rngx = RNG_MD5 -> InitRNGSeed(MpGetUIModUIntMax(n), rngx, c)
          [] rngx = RNG_BBS -> SeedBBS(c, n)
          [] rngx = RNG_ISAAC ->
               Done([c EXCEPT !.rc = irandinit(KeyFromLimbs(n, RANDSIZ))], 0)
          [] OTHER -> Done(c, 0)

\* InitRNGSeedMP(n, rng, rngctx)
InitRNGSeedMP(n, rngx, rngctx) ==
    LET c == [rngctx EXCEPT !.nz = n, !.c = 0]
    IN  CASE rngx = RNG_MERSENNE ->
               IF MpAboveUIntMax(n)
               THEN Done([c EXCEPT !.sfmt = sfmt_init_by_array(KeyFromLimbs(n, SFMT_N32))], 0)
               ELSE InitRNGSeed(MpLowU32(n), rngx, c)
          [] rngx = RNG_MD5 -> InitRNGSeed(MpGetUIModUIntMax(n), rngx, c)
          [] rngx = RNG_BBS -> SeedBBS(c, n)
          [] rngx = RNG_ISAAC ->
               Done([c EXCEPT !.rc = irandinit(KeyFromLimbs(n, RANDSIZ))], 0)
          [] OTHER -> Done(c, 0)

\* InitRNGSeedLong without the sign test
InitRNGSeedLongNoSign(sz, rngx, rngctx) ==
    IF ~sz.ok THEN Done(rngctx, -1)
    ELSE [InitRNGSeedMP(sz.mag, rngx, rngctx) EXCEPT !.ret = 0]

\* InitRNGSeedLong(sz, rng, rngctx): -1 for an unparsable or negative sz,
\* else InitRNGSeedMP and 0
InitRNGSeedLong(sz, rngx, rngctx) ==
    IF ~sz.ok \/ (sz.neg /\ MpSgn(sz.mag) > 0) THEN Done(rngctx, -1)
    ELSE [InitRNGSeedMP(sz.mag, rngx, rngctx) EXCEPT !.ret = 0]

\* RNGSystemSeed(rngx, p, pnSeed), built with GMP and not for WIN32.
\* hasPn: pnSeed is not NULL; ent: what /dev/urandom gives; clock: the time
\* seed.  seed is the value written through pnSeed.
RNGSystemSeed(rngx, rngctx, hasPn, ent, clock) ==
    IF ~hasPn /\ ent.avail
    THEN LET r == InitRNGSeedMP(ent.mpzn, rngx, rngctx)
         IN  [ctx |-> r.ctx, crash |-> r.crash, ret |-> TRUE, seed |-> U32Zero, usedOS |-> TRUE]
    ELSE LET r == InitRNGSeed(clock, rngx, rngctx)
         IN  [ctx |-> [r.ctx EXCEPT !.nz = MpFromU32(clock)], crash |-> r.crash,
              ret |-> FALSE, seed |-> clock, usedOS |-> FALSE]

(***************************************************************************)
(* Configuration of the BBS modulus.                                       *)
(***************************************************************************)
\* InitRNGBBS: initialise the mpz fields once
InitRNGBBS(rngctx) ==
    IF rngctx.fZInit THEN rngctx
    ELSE [rngctx EXCEPT !.zModulus = 0, !.zSeed = MpZero, !.fZInit = TRUE]

\* InitRNGBBSModulus(sz, rngctx); mpz_set_str leaves the modulus alone when
\* it fails, and has stored the value when the sign test fails
InitRNGBBSModulus(sz, rngctx) ==
    IF sz.null THEN Done(rngctx, -1)
    ELSE LET c == InitRNGBBS(rngctx)
         IN  IF ~sz.ok THEN Done(c, -1)
             ELSE IF sz.val < 1 THEN Done([c EXCEPT !.zModulus = sz.val], -1)
             ELSE Done([c EXCEPT !.zModulus = sz.val], 0)

\* the factor p of InitRNGBBSFactors after its test
FactorP(p) == IF ~BBSGood(p) THEN BBSFindGood(p) ELSE p

\* FactorQ without the second search
FactorQOnce(p, q) == IF ~BBSGood(q) \/ p = q THEN BBSFindGood(q) ELSE q

\* the factor q of InitRNGBBSFactors after its test against p
FactorQ(p, q) ==
    IF ~BBSGood(q) \/ p = q
    THEN LET q1 == BBSFindGood(q)
         IN  IF p = q1 THEN BBSFindGood(q1) ELSE q1
    ELSE q

\* InitRNGBBSFactors(sz0, sz1, rngctx): the context, the result and the two
\* factors used.  The sign test that follows the parse of sz1 reads p.
InitRNGBBSFactors(sz0, sz1, rngctx) ==
    IF sz0.null \/ sz1.null THEN [ctx |-> rngctx, ret |-> -1, p |-> 0, q |-> 0]
    ELSE IF ~sz0.ok \/ sz0.val < 1 THEN [ctx |-> rngctx, ret |-> -1, p |-> 0, q |-> 0]
    ELSE IF ~sz1.ok \/ sz0.val < 1 THEN [ctx |-> rngctx, ret |-> -1, p |-> 0, q |-> 0]
    ELSE LET p == FactorP(sz0.val)
             q == FactorQ(p, sz1.val)
         IN  [ctx |-> [InitRNGBBS(rngctx) EXCEPT !.zModulus = p * q],
              ret |-> 0, p |-> p, q |-> q]

(***************************************************************************)
(* The dice file.                                                          *)
(***************************************************************************)
\* OpenDiceFile(rngctx, sz): g_fopen gives NULL for a file that is missing
OpenDiceFile(rngctx, sz) ==
    [rngctx EXCEPT !.szDiceFilename = sz,
                   !.fDice = IF sz \in DOMAIN FileBytes
                             THEN [st |-> "open", name |-> sz, pos |-> 0]
                             ELSE FileNull]

\* CloseDiceFile: fclose when fDice is not NULL; the pointer is kept
CloseDiceFile(rngctx) ==
    IF rngctx.fDice.st = "null" THEN rngctx ELSE [rngctx EXCEPT !.fDice.st = "closed"]

\* CloseRNG(rngx, rngctx)
CloseRNG(rngx, rngctx) == IF rngx = RNG_FILE THEN CloseDiceFile(rngctx) ELSE rngctx

\* (unsigned int) (-1)
Sentinel == U32Max

\* the loop of ReadDiceFile on a readable stream: rewinds counts the
\* rewinds of this call; a second one means a whole pass found no die
RECURSIVE ReadLoop(_, _)
ReadLoop(f, rewinds) ==
    LET bytes == FileBytes[f.name]
    IN  IF ~FileReadable(f.name)
        THEN [fDice |-> f, ret |-> Sentinel, hangs |-> FALSE, rewinds |-> rewinds]
        ELSE IF f.pos >= Len(bytes)
        THEN IF rewinds >= 1
             THEN [fDice |-> [f EXCEPT !.pos = 0], ret |-> U32Zero, hangs |-> TRUE,
                   rewinds |-> rewinds + 1]
             ELSE ReadLoop([f EXCEPT !.pos = 0], rewinds + 1)
        ELSE LET uch == bytes[f.pos + 1]
                 g == [f EXCEPT !.pos = f.pos + 1]
             IN  IF uch >= 49 /\ uch <= 54
                 THEN [fDice |-> g, ret |-> U32FromNat(uch - 48), hangs |-> FALSE,
                       rewinds |-> rewinds]
                 ELSE ReadLoop(g, rewinds)

\* ReadDiceFile that gives 0 where the code gives (unsigned int) (-1)
ReadDiceFileZero(f, ub) ==
    IF f.st = "null" \/ (f.st = "closed" /\ ub = "error")
    THEN [fDice |-> f, ret |-> U32Zero, hangs |-> FALSE, crash |-> FALSE, rewinds |-> 0]
    ELSE IF f.st = "closed" /\ ub = "crash"
    THEN [fDice |-> f, ret |-> Sentinel, hangs |-> FALSE, crash |-> TRUE, rewinds |-> 0]
    ELSE LET r == ReadLoop(f, 0)
         IN  [fDice |-> r.fDice, ret |-> IF r.ret = Sentinel THEN U32Zero ELSE r.ret,
              hangs |-> r.hangs, crash |-> FALSE, rewinds |-> r.rewinds]

\* ReadDiceFile that fails at the end of the file instead of rewinding
ReadDiceFileNoRewind(f, ub) ==
    IF f.st # "open" \/ f.pos >= Len(FileBytes[f.name])
    THEN [fDice |-> f, ret |-> Sentinel, hangs |-> FALSE, crash |-> FALSE, rewinds |-> 0]
    ELSE LET r == ReadLoop(f, 0)
         IN  [fDice |-> r.fDice, ret |-> r.ret, hangs |-> r.hangs, crash |-> FALSE,
              rewinds |-> r.rewinds]

\* ReadDiceFile(rngctx).  Reading a stream that was closed is undefined:
\* ub chooses between a failed read, a crash, and a read that still works.
ReadDiceFile(f, ub) ==
    IF f.st = "null"
    THEN [fDice |-> f, ret |-> Sentinel, hangs |-> FALSE, crash |-> FALSE, rewinds |-> 0]
    ELSE IF f.st = "closed" /\ ub = "error"
    THEN [fDice |-> f, ret |-> Sentinel, hangs |-> FALSE, crash |-> FALSE, rewinds |-> 0]
    ELSE IF f.st = "closed" /\ ub = "crash"
    THEN [fDice |-> f, ret |-> Sentinel, hangs |-> FALSE, crash |-> TRUE, rewinds |-> 0]
    ELSE LET r == ReadLoop(f, 0)
         IN  [fDice |-> r.fDice, ret |-> r.ret, hangs |-> r.hangs, crash |-> FALSE,
              rewinds |-> r.rewinds]

(***************************************************************************)
(* RollDice: the backends.                                                 *)
(***************************************************************************)
exp232_q == 715827882

\* exp232_l, 4294967292
exp232_l == U32(2147483646, 0)

\* FaceOf with the bucket one too wide
FaceOfWide(tmprnd) == U32FromNat(1 + U32DivEven(tmprnd, exp232_q + 2))

\* 1 + (unsigned int) (tmprnd / exp232_q)
FaceOf(tmprnd) == U32FromNat(1 + U32DivEven(tmprnd, exp232_q))

\* Rejected with the limit taken as UINT_MAX
RejectedAboveMax(tmprnd) == U32Geq(tmprnd, U32Max)

\* tmprnd >= exp232_l: the raw value is drawn again
Rejected(tmprnd) == U32Geq(tmprnd, exp232_l)

\* a die as a number; -1 for a value of 2^31 or more
DieValue(d) == IF d.h < 1073741824 THEN 2 * d.h + d.b ELSE -1

\* anDice[i] < 1 || anDice[i] > 6
OutOfRange(d) == DieValue(d) < 1 \/ DieValue(d) > 6

\* what the external inputs of one RollDice call are: the entropy and clock
\* a fallback seeds from, the replies of random.org, the dice typed by
\* hand with the result of GetManualDice, the outcome of reading a closed
\* stream
Env(ent, clock, net, manual, ub) ==
    [ent |-> ent, clock |-> clock, net |-> net, manual |-> manual, ub |-> ub]

\* the record of what one backend did in a roll
NoLog == [draws |-> << >>, bbs |-> << >>, digests |-> << >>, requests |-> 0, rewinds |-> 0]

\* the result of a backend: dice, context, and how the call went on
Rolled(c, d0, d1, log) ==
    [ctx |-> c, anDice |-> << d0, d1 >>, direct |-> FALSE, ret |-> 0,
     hangs |-> FALSE, crash |-> FALSE, log |-> log]

Hung(c, log) ==
    [ctx |-> c, anDice |-> << U32Zero, U32Zero >>, direct |-> FALSE, ret |-> 0,
     hangs |-> TRUE, crash |-> FALSE, log |-> log]

Crashed(c, log) ==
    [ctx |-> c, anDice |-> << U32Zero, U32Zero >>, direct |-> FALSE, ret |-> 0,
     hangs |-> FALSE, crash |-> TRUE, log |-> log]

\* while ((tmprnd = irand(&rngctx->rc)) >= exp232_l);
RECURSIVE IsaacDraw(_, _)
IsaacDraw(rc, draws) ==
    LET d == irand(rc)
    IN  IF Rejected(d.r)
        THEN IsaacDraw(d.rc, Append(draws, [raw |-> d.r, used |-> FALSE]))
        ELSE [st |-> d.rc, tmprnd |-> d.r, draws |-> Append(draws, [raw |-> d.r, used |-> TRUE])]

\* while ((tmprnd = sfmt_genrand_uint32(&rngctx->sfmt)) >= exp232_l);
RECURSIVE MersenneDraw(_, _)
MersenneDraw(sfmt, draws) ==
    LET d == sfmt_genrand_uint32(sfmt)
    IN  IF Rejected(d.r)
        THEN MersenneDraw(d.sfmt, Append(draws, [raw |-> d.r, used |-> FALSE]))
        ELSE [st |-> d.sfmt, tmprnd |-> d.r, draws |-> Append(draws, [raw |-> d.r, used |-> TRUE])]

\* case RNG_ISAAC: the dice of the raw values a and b
RollISAACDice(c, a, b) ==
    Rolled([c EXCEPT !.rc = b.st, !.c = c.c + 2], FaceOf(a.tmprnd), FaceOf(b.tmprnd),
           [NoLog EXCEPT !.draws = b.draws])

\* case RNG_ISAAC: the second loop, after the first gave a
RollISAACSecond(c, a) == RollISAACDice(c, a, IsaacDraw(a.st, a.draws))

\* case RNG_ISAAC
RollISAAC(c) == RollISAACSecond(c, IsaacDraw(c.rc, << >>))

\* case RNG_MERSENNE: the dice of the raw values a and b
RollMersenneDice(c, a, b) ==
    Rolled([c EXCEPT !.sfmt = b.st, !.c = c.c + 2], FaceOf(a.tmprnd), FaceOf(b.tmprnd),
           [NoLog EXCEPT !.draws = b.draws])

\* case RNG_MERSENNE: the second loop, after the first gave a
RollMersenneSecond(c, a) == RollMersenneDice(c, a, MersenneDraw(a.st, a.draws))

\* case RNG_MERSENNE
RollMersenne(c) == RollMersenneSecond(c, MersenneDraw(c.sfmt, << >>))

\* the while loop of case RNG_MD5: digest the seed again, then step it
RECURSIVE MD5Loop(_, _, _)
MD5Loop(nMD5, h, digests) ==
    IF Rejected(h[1]) \/ Rejected(h[2])
    THEN MD5Loop(U32Inc(nMD5), md5_buffer(nMD5), Append(digests, nMD5))
    ELSE [nMD5 |-> nMD5, h |-> h, digests |-> digests]

\* case RNG_MD5: h.an[i] / exp232_q + 1 on the digest l the loop ended with
RollMD5Dice(c, l) ==
    Rolled([c EXCEPT !.nMD5 = U32Inc(l.nMD5), !.c = c.c + 2],
           FaceOf(l.h[1]), FaceOf(l.h[2]),
           [NoLog EXCEPT !.digests = l.digests,
                         !.draws = << [raw |-> l.h[1], used |-> TRUE],
                                      [raw |-> l.h[2], used |-> TRUE] >>])

\* case RNG_MD5
RollMD5(c) == RollMD5Dice(c, MD5Loop(c.nMD5, md5_buffer(c.nMD5), << c.nMD5 >>))

\* BBSDieSum with the bit weighted 2
BBSDieSumTwo(t, g) ==
    [hangs |-> t.hangs, zSeed |-> g.zSeed, die |-> U32FromNat(t.trit + g.bit * 2 + 1),
     trit |-> t.trit, bit |-> g.bit, pre |-> Append(t.pre, t.zSeed)]

\* one die of case RNG_BBS from the trit t and the bit g
BBSDieSum(t, g) ==
    [hangs |-> t.hangs, zSeed |-> g.zSeed, die |-> U32FromNat(t.trit + g.bit * 3 + 1),
     trit |-> t.trit, bit |-> g.bit, pre |-> Append(t.pre, t.zSeed)]

\* the bit drawn after the trit t
BBSDieBit(t, zModulus) == BBSDieSum(t, BBSGetBit(t.zSeed, zModulus))

\* BBSGetTrit(rngctx) + BBSGetBit(rngctx) * 3 + 1, the trit drawn first
BBSDie(zSeed, zModulus) == BBSDieBit(BBSGetTrit(zSeed, zModulus), zModulus)

\* what a die of case RNG_BBS leaves in the record of the roll
BBSLog(a) == [trit |-> a.trit, bit |-> a.bit, pre |-> a.pre]

\* case RNG_BBS: both dice drawn
RollBBSDice(c, a, b) ==
    IF b.hangs THEN Hung(c, [NoLog EXCEPT !.bbs = << BBSLog(a) >>])
    ELSE Rolled([c EXCEPT !.zSeed = b.zSeed, !.c = c.c + 2], a.die, b.die,
                [NoLog EXCEPT !.bbs = << BBSLog(a), BBSLog(b) >>])

\* case RNG_BBS: the second die, after the first gave a
RollBBSSecond(c, a) ==
    IF a.hangs THEN Hung(c, NoLog) ELSE RollBBSDice(c, a, BBSDie(a.zSeed, c.zModulus))

\* case RNG_BBS: BBSCheck first; squaring modulo zero kills the process
RollBBS(c) ==
    IF BBSCheck(c.zSeed) # 0
    THEN Rolled([c EXCEPT !.zSeed = MpZero], U32Zero, U32Zero, NoLog)
    ELSE IF c.zModulus = 0 THEN Crashed(c, NoLog)
    ELSE RollBBSSecond(c, BBSDie(c.zSeed, c.zModulus))

\* case RNG_RANDOM_DOT_ORG: net holds the replies of getDiceRandomDotOrg
RollRandomDotOrg(c, net) ==
    IF DieValue(net[1]) # 0
    THEN Rolled(c, net[1], net[2], [NoLog EXCEPT !.requests = 2])
    ELSE Rolled(c, net[1], net[1], [NoLog EXCEPT !.requests = 1])

\* case RNG_FILE: both reads done
RollFileDice(c, a, b) ==
    IF a.crash \/ (~a.hangs /\ b.crash)
    THEN Crashed(c, [NoLog EXCEPT !.rewinds = a.rewinds + b.rewinds])
    ELSE IF a.hangs \/ b.hangs
    THEN Hung(c, [NoLog EXCEPT !.rewinds = a.rewinds + b.rewinds])
    ELSE Rolled([c EXCEPT !.fDice = b.fDice, !.c = c.c + 2], a.ret, b.ret,
                [NoLog EXCEPT !.rewinds = a.rewinds + b.rewinds])

\* case RNG_FILE: the second read, after the first gave a
RollFileSecond(c, ub, a) == RollFileDice(c, a, ReadDiceFile(a.fDice, ub))

\* case RNG_FILE
RollFile(c, ub) == RollFileSecond(c, ub, ReadDiceFile(c.fDice, ub))

\* case RNG_MANUAL: return GetManualDice(anDice)
RollManual(c, manual) ==
    [ctx |-> c, anDice |-> manual.dice, direct |-> TRUE, ret |-> manual.ret,
     hangs |-> FALSE, crash |-> FALSE, log |-> NoLog]

\* the switch of RollDice
RollBackend(rngx, c, env) ==
    CASE rngx = RNG_BBS -> RollBBS(c)
      [] rngx = RNG_ISAAC -> RollISAAC(c)
      [] rngx = RNG_MANUAL -> RollManual(c, env.manual)
      [] rngx = RNG_MD5 -> RollMD5(c)
      [] rngx = RNG_MERSENNE -> RollMersenne(c)
      [] rngx = RNG_RANDOM_DOT_ORG -> RollRandomDotOrg(c, env.net)
      [] rngx = RNG_FILE -> RollFile(c, env.ub)

(***************************************************************************)
(* Selecting a generator (SetRNG and SetSeed of set.c, which RollDice      *)
(* calls to fall back on RNG_MERSENNE).                                    *)
(***************************************************************************)
\* the szSeed argument of SetRNG: empty, a seed, "modulus <a>",
\* "factors <a> <b>", or a file name
SetArg(kw, a, b, sz, name) == [kw |-> kw, a |-> a, b |-> b, sz |-> sz, name |-> name]

ArgNone == SetArg("", StrNull, StrNull, SeedStr(FALSE, FALSE, MpZero), "")

ArgSeed(sz) == SetArg("seed", StrNull, StrNull, sz, "")

ArgModulus(a) == SetArg("modulus", a, StrNull, SeedStr(FALSE, FALSE, MpZero), "")

ArgFactors(a, b) == SetArg("factors", a, b, SeedStr(FALSE, FALSE, MpZero), "")

ArgFile(name) == SetArg("file", StrNull, StrNull, SeedStr(FALSE, FALSE, MpZero), name)

\* the modulus SetRNG installs when none is given; the program's is a
\* 256-bit Blum integer, the model's is 19 * 23
DefaultModulus == Num(437)

\* SetSeed(rngx, rngctx, sz): a given seed goes to InitRNGSeedLong, an empty
\* one to RNGSystemSeed with no place for the seed
SetSeed(rngx, rngctx, arg, ent, clock) ==
    IF rngx \in {RNG_MANUAL, RNG_RANDOM_DOT_ORG} THEN Done(rngctx, 0)
    ELSE IF arg.kw = "seed" THEN InitRNGSeedLong(arg.sz, rngx, rngctx)
    ELSE RNGSystemSeed(rngx, rngctx, FALSE, ent, clock)

\* the part of SetRNG that sets up the new generator: the context, and
\* whether SetRNG goes on to select it
SetRNGPrepare(rngNew, c, arg) ==
    CASE rngNew = RNG_BBS ->
           IF arg.kw = "modulus"
           THEN LET r == InitRNGBBSModulus(arg.a, c) IN [ctx |-> r.ctx, ok |-> r.ret = 0]
           ELSE IF arg.kw = "factors"
           THEN LET r == InitRNGBBSFactors(arg.a, arg.b, c) IN [ctx |-> r.ctx, ok |-> r.ret = 0]
           ELSE [ctx |-> InitRNGBBSModulus(DefaultModulus, c).ctx, ok |-> TRUE]
      [] rngNew = RNG_FILE ->
           IF arg.kw # "file" THEN [ctx |-> c, ok |-> FALSE]
           ELSE LET o == OpenDiceFile(c, arg.name)
                IN  [ctx |-> o, ok |-> o.fDice.st # "null"]
      [] OTHER -> [ctx |-> c, ok |-> TRUE]

\* SetRNG once SetSeed has given r
SetRNGSeeded(rngNew, r) == [rng |-> rngNew, ctx |-> r.ctx, crash |-> r.crash]

\* SetRNG once the new generator is set up as p
SetRNGSelect(rngOld, rngNew, arg, ent, clock, p) ==
    IF ~p.ok THEN [rng |-> rngOld, ctx |-> p.ctx, crash |-> FALSE]
    ELSE IF rngNew \in {RNG_MANUAL, RNG_RANDOM_DOT_ORG, RNG_FILE}
    THEN [rng |-> rngNew, ctx |-> p.ctx, crash |-> FALSE]
    ELSE SetRNGSeeded(rngNew, SetSeed(rngNew, p.ctx, IF arg.kw = "seed" THEN arg ELSE ArgNone,
                                      ent, clock))

\* SetRNG(prng, rngctx, rngNew, szSeed): the generator selected and the context
SetRNG(rngOld, rngctx, rngNew, arg, ent, clock) ==
    IF rngOld = rngNew /\ arg.kw = "" THEN [rng |-> rngOld, ctx |-> rngctx, crash |-> FALSE]
    ELSE SetRNGSelect(rngOld, rngNew, arg, ent, clock,
                      SetRNGPrepare(rngNew, CloseRNG(rngOld, rngctx), arg))

(***************************************************************************)
(* RollDice.                                                               *)
(***************************************************************************)
\* the nesting of RollDice the model follows before it gives the call up
RollDepthCap == 3

\* NotWorking with the second die forgotten
NotWorkingFirstOnly(anDice) == OutOfRange(anDice[1])

\* anDice[0] < 1 || anDice[1] < 1 || anDice[0] > 6 || anDice[1] > 6
NotWorking(anDice) == OutOfRange(anDice[1]) \/ OutOfRange(anDice[2])

\* how a RollDice call ends: end is "return", "hang" or "crash"; attempts
\* holds, for each call of the nest, the generator it used, the dice its
\* backend gave, the backend's record, whether the backend came back, and
\* the counter and the BBS seed its branch of the switch left.
RollEnd(end, rngx, c, anDice, ret, attempts) ==
    [end |-> end, rng |-> rngx, ctx |-> c, anDice |-> anDice, ret |-> ret,
     attempts |-> attempts]

\* RollDice(anDice, prng, rngctx) at nesting depth, with the attempts made
\* by the calls around it
RECURSIVE RollDiceAt(_, _, _, _, _)

\* RollDiceAgain that returns without rolling again
RollDiceAgainNot(env, depth, att, r, s) == RollEnd("return", s.rng, s.ctx, r.anDice, 0, att)

\* return RollDice(anDice, prng, rngctx), SetRNG having given s
RollDiceAgain(env, depth, att, r, s) ==
    IF s.crash THEN RollEnd("crash", s.rng, s.ctx, r.anDice, 0, att)
    ELSE RollDiceAt(s.rng, s.ctx, env, depth + 1, att)

\* RollDice after the switch: the backend gave r
RollDiceCheck(rngx, rngctx, env, depth, att, r) ==
    IF r.crash THEN RollEnd("crash", rngx, rngctx, r.anDice, 0, att)
    ELSE IF r.hangs THEN RollEnd("hang", rngx, rngctx, r.anDice, 0, att)
    ELSE IF r.direct THEN RollEnd("return", rngx, r.ctx, r.anDice, r.ret, att)
    ELSE IF NotWorking(r.anDice)
    THEN IF depth >= RollDepthCap THEN RollEnd("crash", rngx, r.ctx, r.anDice, 0, att)
         ELSE RollDiceAgain(env, depth, att, r,
                            SetRNG(rngx, r.ctx, RNG_MERSENNE, ArgNone, env.ent, env.clock))
    ELSE RollEnd("return", rngx, r.ctx, r.anDice, 0, att)

\* the attempt of this call entered in the record
RollDiceSwitch(rngx, rngctx, env, depth, attempts, r) ==
    RollDiceCheck(rngx, rngctx, env, depth,
                  Append(attempts, [rngx |-> rngx, anDice |-> r.anDice, log |-> r.log,
                                    done |-> ~r.crash /\ ~r.hangs,
                                    c |-> r.ctx.c, zSeed |-> r.ctx.zSeed]), r)

RollDiceAt(rngx, rngctx, env, depth, attempts) ==
    RollDiceSwitch(rngx, rngctx, env, depth, attempts, RollBackend(rngx, rngctx, env))

RollDice(rngx, rngctx, env) == RollDiceAt(rngx, rngctx, env, 0, << >>)

(***************************************************************************)
(* The state machine: the calls a program makes on its contexts.           *)
(***************************************************************************)
VARIABLES
    rng,    \* rng[i]: the generator context i is used with (*prng)
    ctx,    \* ctx[i]: the struct rngcontext
    proc,   \* "running", or "hung" / "crashed" once a call did not return
    hist,   \* hist[i]: the seed last given to InitRNGSeed and the dice rolled since
    out     \* the last call: its arguments, its result, what it did

vars == << rng, ctx, proc, hist, out >>

\* the replies of getDiceRandomDotOrg to the two requests of a roll: -1, 0,
\* 3 and 7 as unsigned
NetReplies == {<< U32Max, U32(1, 1) >>, << U32Zero, U32(1, 1) >>, << U32(1, 1), U32(1, 0) >>,
               << U32(1, 1), U32(3, 1) >>, << U32(1, 1), U32Zero >>}

\* what GetManualDice gives: two dice, or a refusal
ManualReplies == {[ret |-> 0, dice |-> << U32(1, 1), U32(2, 1) >>],
                  [ret |-> -1, dice |-> << U32Zero, U32Zero >>]}

UBReads == {"error", "crash", "stale"}

\* the inputs a roll on generator rngx of context c can read
RollEnvs(rngx, c) ==
    {Env(ent, clock, net, manual, ub) :
        ent \in (IF rngx \in {RNG_BBS, RNG_RANDOM_DOT_ORG, RNG_FILE}
                 THEN Entropy ELSE {EntropyNone}),
        clock \in ClockValues,
        net \in (IF rngx = RNG_RANDOM_DOT_ORG THEN NetReplies
                 ELSE {<< U32Zero, U32Zero >>}),
        manual \in (IF rngx = RNG_MANUAL THEN ManualReplies
                    ELSE {[ret |-> 0, dice |-> << U32Zero, U32Zero >>]}),
        ub \in (IF rngx = RNG_FILE /\ c.fDice.st = "closed" THEN UBReads ELSE {"error"})}

\* the arguments a program selects generator rngNew with at start-up
SetArgs(rngNew) ==
    CASE rngNew = RNG_BBS ->
           {ArgNone, ArgModulus(Num(21)), ArgModulus(StrBad), ArgFactors(Num(4), Num(9))}
      [] rngNew = RNG_FILE -> {ArgNone} \cup {ArgFile(name) : name \in FileNames}
      [] rngNew \in {RNG_MANUAL, RNG_RANDOM_DOT_ORG} -> {ArgNone}
      [] OTHER -> {ArgNone, ArgSeed(SeedStr(TRUE, FALSE, << U32(1, 1) >>))}

NoHist == [seeded |-> FALSE, rngx |-> RNG_MERSENNE, n |-> U32Zero, rolls |-> << >>]

\* the states a program starts from: rngCurrent = RNG_MERSENNE and the
\* context of InitRNG(.., FALSE, ..), then the selection its settings ask for
Started(rngNew, arg, ent) ==
    SetRNG(RNG_MERSENNE, NewContext, rngNew, arg, ent, CHOOSE clock \in ClockValues : TRUE)

InitFrom(ids, rngNew, arg, s) ==
    /\ rng = [i \in CtxIds |-> IF i \in ids THEN s.rng ELSE RNG_MERSENNE]
    /\ ctx = [i \in CtxIds |-> IF i \in ids THEN s.ctx ELSE NewContext]
    /\ out = [op |-> "SetRNG", rngNew |-> rngNew, arg |-> arg]
    /\ proc = "running"
    /\ hist = [i \in CtxIds |-> NoHist]

InitWith(ids) ==
    \E rngNew \in Rngs : \E arg \in SetArgs(rngNew), ent \in Entropy :
        InitFrom(ids, rngNew, arg, Started(rngNew, arg, ent))

Init == InitWith({1})

\* a call that ended: the context after it, or the process dead
Finish(i, r, o) ==
    /\ ctx' = [ctx EXCEPT ![i] = IF r.crash THEN ctx[i] ELSE r.ctx]
    /\ proc' = IF r.crash THEN "crashed" ELSE "running"
    /\ out' = [o EXCEPT !.returned = ~r.crash]

\* InitRNGSeed came back with r; track: whether the call is entered in hist
DoneInitRNGSeed(i, n, track, r) ==
    /\ Finish(i, r, [op |-> "InitRNGSeed", id |-> i, rngx |-> rng[i], n |-> n,
                     ret |-> r.ret, returned |-> TRUE])
    /\ hist' = IF track /\ ~r.crash
               THEN [hist EXCEPT ![i] = [seeded |-> TRUE, rngx |-> rng[i], n |-> n,
                                         rolls |-> << >>]]
               ELSE hist
    /\ UNCHANGED rng

CallInitRNGSeed(i, n, track) ==
    /\ proc = "running"
    /\ DoneInitRNGSeed(i, n, track, InitRNGSeed(n, rng[i], ctx[i]))

DoneInitRNGSeedLong(i, sz, r) ==
    /\ Finish(i, r, [op |-> "InitRNGSeedLong", id |-> i, rngx |-> rng[i], sz |-> sz,
                     ret |-> r.ret, returned |-> TRUE])
    /\ UNCHANGED << rng, hist >>

CallInitRNGSeedLong(i, sz) ==
    /\ proc = "running"
    /\ DoneInitRNGSeedLong(i, sz, InitRNGSeedLong(sz, rng[i], ctx[i]))

DoneRNGSystemSeed(i, hasPn, ent, clock, r) ==
    /\ Finish(i, r, [op |-> "RNGSystemSeed", id |-> i, rngx |-> rng[i],
                     hasPn |-> hasPn, ent |-> ent, clock |-> clock,
                     ret |-> r.ret, seed |-> r.seed, usedOS |-> r.usedOS,
                     returned |-> TRUE])
    /\ UNCHANGED << rng, hist >>

CallRNGSystemSeed(i, hasPn, ent, clock) ==
    /\ proc = "running"
    /\ DoneRNGSystemSeed(i, hasPn, ent, clock, RNGSystemSeed(rng[i], ctx[i], hasPn, ent, clock))

\* a change of the modulus ends the run hist follows
DoneInitRNGBBSModulus(i, sz, r) ==
    /\ Finish(i, r, [op |-> "InitRNGBBSModulus", id |-> i, sz |-> sz, ret |-> r.ret,
                     returned |-> TRUE])
    /\ hist' = [hist EXCEPT ![i] = NoHist]
    /\ UNCHANGED rng

CallInitRNGBBSModulus(i, sz) ==
    /\ proc = "running"
    /\ rng[i] = RNG_BBS
    /\ DoneInitRNGBBSModulus(i, sz, InitRNGBBSModulus(sz, ctx[i]))

DoneInitRNGBBSFactors(i, sz0, sz1, r) ==
    /\ Finish(i, [ctx |-> r.ctx, crash |-> FALSE],
              [op |-> "InitRNGBBSFactors", id |-> i, sz0 |-> sz0, sz1 |-> sz1,
               ret |-> r.ret, p |-> r.p, q |-> r.q, returned |-> TRUE])
    /\ hist' = [hist EXCEPT ![i] = NoHist]
    /\ UNCHANGED rng

CallInitRNGBBSFactors(i, sz0, sz1) ==
    /\ proc = "running"
    /\ rng[i] = RNG_BBS
    /\ DoneInitRNGBBSFactors(i, sz0, sz1, InitRNGBBSFactors(sz0, sz1, ctx[i]))

DoneRollDice(i, track, r) ==
    /\ ctx' = [ctx EXCEPT ![i] = r.ctx]
    /\ rng' = [rng EXCEPT ![i] = r.rng]
    /\ proc' = CASE r.end = "return" -> "running"
                 [] r.end = "hang" -> "hung"
                 [] r.end = "crash" -> "crashed"
    /\ out' = [op |-> "RollDice", id |-> i, rngx |-> rng[i], returned |-> r.end = "return",
               ret |-> r.ret, anDice |-> r.anDice, attempts |-> r.attempts]
    /\ hist' = IF track /\ hist[i].seeded /\ r.end = "return"
               THEN [hist EXCEPT ![i].rolls = Append(@, r.anDice)]
               ELSE hist

CallRollDice(i, env, track) ==
    /\ proc = "running"
    /\ ctx[i].c < MaxCount
    /\ DoneRollDice(i, track, RollDice(rng[i], ctx[i], env))

\* the calls on context i
Calls(i) ==
    \/ \E n \in SeedValues : CallInitRNGSeed(i, n, FALSE)
    \/ \E sz \in SeedStrings : CallInitRNGSeedLong(i, sz)
    \/ \E hasPn \in BOOLEAN, ent \in Entropy, clock \in ClockValues :
          CallRNGSystemSeed(i, hasPn, ent, clock)
    \/ \E sz \in ModulusStrings : CallInitRNGBBSModulus(i, sz)
    \/ \E f \in FactorPairs : CallInitRNGBBSFactors(i, f[1], f[2])
    \/ \E env \in RollEnvs(rng[i], ctx[i]) : CallRollDice(i, env, FALSE)

Next == Calls(1)

Spec == Init /\ [][Next]_vars

(***************************************************************************)
(* BBSGetTrit on every string of fair bits up to a length.                 *)
(***************************************************************************)
\* the longest bit string BBSGetTrit is run on
MaxBits == 6

BitStrings(n) == [1..n -> {0, 1}]

InitTrit ==
    /\ rng = [i \in CtxIds |-> RNG_BBS]
    /\ ctx = [i \in CtxIds |-> NewContext]
    /\ proc = "running"
    /\ hist = [i \in CtxIds |-> NoHist]
    /\ \E n \in 0..MaxBits : \E bits \in BitStrings(n) : out = [op |-> "bits", bits |-> bits]

TritDone(bits, r) ==
    out' = [op |-> "BBSGetTrit", bits |-> bits, ended |-> r.ended, trit |-> r.trit,
            used |-> r.used]

CallBBSGetTritOn ==
    /\ out.op = "bits"
    /\ TritDone(out.bits, TritOnBits(0, out.bits, 0))
    /\ UNCHANGED << rng, ctx, proc, hist >>

NextTrit == CallBBSGetTritOn

SpecTrit == InitTrit /\ [][NextTrit]_vars

(***************************************************************************)
(* The configuration of the BBS modulus on a wide set of strings.          *)
(***************************************************************************)
FactorStrings ==
    {StrNull, StrBad, Num(0 - 3), Num(0), Num(1), Num(4), Num(9), Num(18), Num(19),
     Num(20), Num(22), Num(23), Num(30), Num(31)}

InitBBS == InitWith({1}) /\ rng[1] = RNG_BBS

NextFactors ==
    \/ \E sz0 \in FactorStrings, sz1 \in FactorStrings : CallInitRNGBBSFactors(1, sz0, sz1)
    \/ \E sz \in ModulusStrings \cup {StrNull, Num(0 - 21)} : CallInitRNGBBSModulus(1, sz)

SpecFactors == InitBBS /\ [][NextFactors]_vars

(***************************************************************************)
(* Two contexts of one generator, seeded by InitRNGSeed and rolled.        *)
(***************************************************************************)
\* the generators InitRNGSeed is given in the two-context runs
Seedable == {RNG_BBS, RNG_ISAAC, RNG_MD5, RNG_MERSENNE, RNG_FILE}

InitPair == InitWith(CtxIds) /\ rng[1] \in Seedable

PairCalls(i) ==
    \/ \E n \in SeedValues : CallInitRNGSeed(i, n, TRUE)
    \/ \E env \in RollEnvs(rng[i], ctx[i]) : CallRollDice(i, env, TRUE)
    \/ \E sz \in {Num(437), Num(713)} : CallInitRNGBBSModulus(i, sz)

NextPair == \E i \in CtxIds : PairCalls(i)

SpecPair == InitPair /\ [][NextPair]_vars

(***************************************************************************)
(* Decimal text: what mpz_set_str reads and mpz_get_str writes.  A text is *)
(* a sequence of digits, the most significant first.                       *)
(***************************************************************************)
\* the two 16-bit halves of a limb, and the limb of two halves
U32Hi16(x) == x.h \div 32768

U32Lo16(x) == 2 * (x.h % 32768) + x.b

U32From16(hi, lo) == U32(hi * 32768 + lo \div 2, lo % 2)

\* n * 10 + carry on the limbs of n, the least significant first
RECURSIVE MpTimesTenPlus(_, _)
MpTimesTenPlus(n, carry) ==
    IF Len(n) = 0 THEN (IF carry = 0 THEN << >> ELSE << U32FromNat(carry) >>)
    ELSE LET lo == U32Lo16(n[1]) * 10 + carry
             hi == U32Hi16(n[1]) * 10 + lo \div 65536
         IN  << U32From16(hi % 65536, lo % 65536) >>
                \o MpTimesTenPlus(Tail(n), hi \div 65536)

\* mpz_set_str(n, sz, 10) on a text of digits: the value read so far is acc
RECURSIVE MpFromDigitsAt(_, _)
MpFromDigitsAt(digits, acc) ==
    IF Len(digits) = 0 THEN acc
    ELSE MpFromDigitsAt(Tail(digits), MpTimesTenPlus(acc, Head(digits)))

MpFromDigits(digits) == MpFromDigitsAt(digits, MpZero)

\* n without its most significant limbs that are zero
RECURSIVE MpTrim(_)
MpTrim(n) ==
    IF Len(n) = 0 THEN n
    ELSE IF U32Eq(n[Len(n)], U32Zero) THEN MpTrim(SubSeq(n, 1, Len(n) - 1))
    ELSE n

\* the limbs of n from the most significant down to limb k divided by 10:
\* the quotient limbs k.. and the remainder
RECURSIVE MpDivTenAt(_, _)
MpDivTenAt(n, k) ==
    IF k > Len(n) THEN [q |-> << >>, r |-> 0]
    ELSE LET up == MpDivTenAt(n, k + 1)
             hi == up.r * 65536 + U32Hi16(n[k])
             lo == (hi % 10) * 65536 + U32Lo16(n[k])
         IN  [q |-> << U32From16(hi \div 10, lo \div 10) >> \o up.q, r |-> lo % 10]

\* mpz_get_str(NULL, 10, n) of a non-negative n: its digits
RECURSIVE MpDigits(_)
MpDigits(n) ==
    IF Len(n) = 0 THEN << 0 >>
    ELSE LET d == MpDivTenAt(n, 1)
         IN  IF Len(MpTrim(d.q)) = 0 THEN << d.r >>
             ELSE Append(MpDigits(MpTrim(d.q)), d.r)

\* the digits of a small integer, with its sign
RECURSIVE NatDigits(_)
NatDigits(v) == IF v < 10 THEN << v >> ELSE Append(NatDigits(v \div 10), v % 10)

IntDigits(v) == [neg |-> v < 0, digits |-> NatDigits(Abs(v))]

(***************************************************************************)
(* PrintRNGSeed: the text shown, as its format and the numbers in it.      *)
(***************************************************************************)
\* PrintRNGSeed that shows the word n where the seed nz is due
PrintRNGSeedWord(rngx, rngctx) ==
    CASE rngx = RNG_BBS ->
           [fmt |-> "The current seed is %s, and the modulus is %s.",
            seed |-> MpDigits(rngctx.zSeed), modulus |-> IntDigits(rngctx.zModulus),
            name |-> ""]
      [] rngx = RNG_MD5 ->
           [fmt |-> "The current seed is %u.",
            seed |-> MpDigits(MpFromU32(rngctx.nMD5)), modulus |-> IntDigits(0), name |-> ""]
      [] rngx = RNG_FILE ->
           [fmt |-> "GNU Backgammon is reading dice from file: %s",
            seed |-> << >>, modulus |-> IntDigits(0), name |-> rngctx.szDiceFilename]
      [] rngx \in {RNG_ISAAC, RNG_MERSENNE} ->
           [fmt |-> "The current seed is %s",
            seed |-> MpDigits(MpFromU32(MpLowU32(rngctx.nz))), modulus |-> IntDigits(0),
            name |-> ""]
      [] OTHER ->
           [fmt |-> "You cannot show the seed with this random number generator.",
            seed |-> << >>, modulus |-> IntDigits(0), name |-> ""]

PrintRNGSeed(rngx, rngctx) ==
    CASE rngx = RNG_BBS ->
           [fmt |-> "The current seed is %s, and the modulus is %s.",
            seed |-> MpDigits(rngctx.zSeed), modulus |-> IntDigits(rngctx.zModulus),
            name |-> ""]
      [] rngx = RNG_MD5 ->
           [fmt |-> "The current seed is %u.",
            seed |-> MpDigits(MpFromU32(rngctx.nMD5)), modulus |-> IntDigits(0), name |-> ""]
      [] rngx = RNG_FILE ->
           [fmt |-> "GNU Backgammon is reading dice from file: %s",
            seed |-> << >>, modulus |-> IntDigits(0), name |-> rngctx.szDiceFilename]
      [] rngx \in {RNG_ISAAC, RNG_MERSENNE} ->
           [fmt |-> "The current seed is %s",
            seed |-> MpDigits(rngctx.nz), modulus |-> IntDigits(0), name |-> ""]
      [] OTHER ->
           [fmt |-> "You cannot show the seed with this random number generator.",
            seed |-> << >>, modulus |-> IntDigits(0), name |-> ""]

DonePrintRNGSeed(i, shown) ==
    /\ out' = [op |-> "PrintRNGSeed", id |-> i, rngx |-> rng[i], shown |-> shown,
               returned |-> TRUE]
    /\ UNCHANGED << rng, ctx, proc, hist >>

\* the mpz fields of RNG_BBS are read: InitRNGBBS has run on every context
\* that RNG_BBS is selected for
CallPrintRNGSeed(i) ==
    /\ proc = "running"
    /\ rng[i] = RNG_BBS => ctx[i].fZInit
    /\ DonePrintRNGSeed(i, PrintRNGSeed(rng[i], ctx[i]))

(***************************************************************************)
(* Two contexts seeded from decimal texts by InitRNGSeedLong and shown.    *)
(***************************************************************************)
\* 7, 4294967295 (UINT_MAX), 4294967296, 4294967301, 4294967302,
\* 8589934597 (the low word of 4294967301) and 18446744073709551621
SeedTexts ==
    {<< 7 >>,
     << 4, 2, 9, 4, 9, 6, 7, 2, 9, 5 >>,
     << 4, 2, 9, 4, 9, 6, 7, 2, 9, 6 >>,
     << 4, 2, 9, 4, 9, 6, 7, 3, 0, 1 >>,
     << 4, 2, 9, 4, 9, 6, 7, 3, 0, 2 >>,
     << 8, 5, 8, 9, 9, 3, 4, 5, 9, 7 >>,
     << 1, 8, 4, 4, 6, 7, 4, 4, 0, 7, 3, 7, 0, 9, 5, 5, 1, 6, 2, 1 >>}

\* the string of digits text as InitRNGSeedLong parses it
SeedOfText(text) == SeedStr(TRUE, FALSE, MpFromDigits(text))

\* the generators that show a long seed
LongSeeded == {RNG_BBS, RNG_ISAAC, RNG_MERSENNE}

InitLong == InitWith(CtxIds) /\ rng[1] \in LongSeeded

LongCalls(i) ==
    \/ \E text \in SeedTexts : CallInitRNGSeedLong(i, SeedOfText(text))
    \/ CallPrintRNGSeed(i)

NextLong == \E i \in CtxIds : LongCalls(i)

SpecLong == InitLong /\ [][NextLong]_vars

(***************************************************************************)
(* CopyRNGContext: context 2 is made as the copy of context 1, then both   *)
(* are rolled and seeded.  The struct assignment copies the pointers: the  *)
(* FILE and the limbs of the mpz_t fields belong to both contexts.         *)
(***************************************************************************)
\* *newCtx = *rngctx: every field, the pointers among them
CopyRNGContext(rngctx) == rngctx

\* what a context reads in an mpz_t of its own size after another context
\* wrote w into the limbs they share: the limbs of w, then the old ones
PeerRead(v, w) == [k \in 1..Len(v) |-> IF k <= Len(w) THEN w[k] ELSE v[k]]

\* an mpz_t of the other context of a copy after a call changed it from
\* before to after.  A value of no more limbs is written in place.  A value
\* of more limbs may move the limbs: the other context then points at freed
\* memory, which grow = "moved" takes to hold the old limbs still.
PeerMpz(v, before, after, grow) ==
    IF after = before THEN v
    ELSE IF Len(after) > Len(before) /\ grow = "moved" THEN v
    ELSE PeerRead(v, after)

\* the other context of a copy after a call took its twin from before to
\* after: the FILE is one object, the struct fields are apart
Aliased(peer, before, after, grow) ==
    [peer EXCEPT !.fDice = after.fDice,
                 !.zSeed = PeerMpz(@, before.zSeed, after.zSeed, grow),
                 !.nz = PeerMpz(@, before.nz, after.nz, grow)]

Grows == {"inplace", "moved"}

DoneCopyRNGContext(c) ==
    /\ ctx' = [ctx EXCEPT ![2] = c]
    /\ rng' = [rng EXCEPT ![2] = rng[1]]
    /\ out' = [op |-> "CopyRNGContext", id |-> 2, returned |-> TRUE]
    /\ UNCHANGED << proc, hist >>

\* context 2 = CopyRNGContext(context 1), used with the generator of 1
CallCopyRNGContext ==
    /\ proc = "running"
    /\ out.op = "SetRNG"
    /\ DoneCopyRNGContext(CopyRNGContext(ctx[1]))

\* RollDice on context i of the two came back with r
DoneRollDiceCopied(i, grow, r) ==
    /\ ctx' = [k \in CtxIds |-> IF k = i THEN r.ctx ELSE Aliased(ctx[k], ctx[i], r.ctx, grow)]
    /\ rng' = [rng EXCEPT ![i] = r.rng]
    /\ proc' = CASE r.end = "return" -> "running"
                 [] r.end = "hang" -> "hung"
                 [] r.end = "crash" -> "crashed"
    /\ out' = [op |-> "RollDice", id |-> i, rngx |-> rng[i], returned |-> r.end = "return",
               ret |-> r.ret, anDice |-> r.anDice, attempts |-> r.attempts]
    /\ UNCHANGED hist

CallRollDiceCopied(i, env, grow) ==
    /\ proc = "running"
    /\ out.op # "SetRNG"
    /\ ctx[i].c < MaxCount
    /\ DoneRollDiceCopied(i, grow, RollDice(rng[i], ctx[i], env))

\* InitRNGSeed on context i of the two came back with r
DoneInitRNGSeedCopied(i, n, grow, r) ==
    /\ ctx' = [k \in CtxIds |-> IF r.crash THEN ctx[k]
                                ELSE IF k = i THEN r.ctx
                                ELSE Aliased(ctx[k], ctx[i], r.ctx, grow)]
    /\ proc' = IF r.crash THEN "crashed" ELSE "running"
    /\ out' = [op |-> "InitRNGSeed", id |-> i, rngx |-> rng[i], n |-> n,
               ret |-> r.ret, returned |-> ~r.crash]
    /\ UNCHANGED << rng, hist >>

CallInitRNGSeedCopied(i, n, grow) ==
    /\ proc = "running"
    /\ out.op # "SetRNG"
    /\ DoneInitRNGSeedCopied(i, n, grow, InitRNGSeed(n, rng[i], ctx[i]))

CopyCalls(i) ==
    \/ \E env \in RollEnvs(rng[i], ctx[i]), grow \in Grows : CallRollDiceCopied(i, env, grow)
    \/ \E n \in SeedValues, grow \in Grows : CallInitRNGSeedCopied(i, n, grow)

NextCopy == CallCopyRNGContext \/ \E i \in CtxIds : CopyCalls(i)

SpecCopy == Init /\ [][NextCopy]_vars

(***************************************************************************)
(* The end of a context: CloseRNG, then free_rngctx.  The resources of a   *)
(* context are named after the fields that hold them.                      *)
(***************************************************************************)
\* the mpz_t that InitRNGBBS initialises
BBSMpz == {"zModulus", "zSeed", "zZero", "zOne"}

\* what a context holds: the struct and nz (InitRNG), the four mpz_t of
\* InitRNGBBS, the name OpenDiceFile duplicated, the stream it opened
Owned(rngctx) ==
    {"rngctx", "nz"}
      \cup (IF rngctx.fZInit THEN BBSMpz ELSE {})
      \cup (IF rngctx.szDiceFilename # "(null)" THEN {"szDiceFilename"} ELSE {})
      \cup (IF rngctx.fDice.st = "open" THEN {"fDice"} ELSE {})

\* free_rngctx: mpz_clear(rngctx->nz); g_free(rngctx), of the resources
\* held what is left
free_rngctx(held) == held \ {"nz", "rngctx"}

\* CloseRNG(rngx, rngctx); free_rngctx(rngctx): what stays allocated
Destroyed(rngx, rngctx) == free_rngctx(Owned(CloseRNG(rngx, rngctx)))

DoneDestroy(i, live) ==
    /\ out' = [op |-> "free_rngctx", id |-> i, rngx |-> rng[i], returned |-> TRUE,
               owned |-> Owned(ctx[i]), live |-> live]
    /\ proc' = "freed"
    /\ UNCHANGED << rng, ctx, hist >>

\* the context is given up: nothing can be called on it afterwards
CallDestroy(i) ==
    /\ proc = "running"
    /\ DoneDestroy(i, Destroyed(rng[i], ctx[i]))

NextDestroy == Calls(1) \/ CallDestroy(1)

SpecDestroy == Init /\ [][NextDestroy]_vars

(***************************************************************************)
(* BBSCheckInitialSeed on a range of seeds, under the moduli 3 * 7,        *)
(* 19 * 23 and 19 * 1543 (squaring modulo 1543 has cycles of length 16).   *)
(***************************************************************************)
\* the largest seed BBSCheckInitialSeed is run on
MaxSeed == 45

CheckModuli == {21, 437, 29317}

InitSeedCheck ==
    /\ rng = [i \in CtxIds |-> RNG_BBS]
    /\ \E n \in 0..MaxSeed, mo \in CheckModuli :
          /\ ctx = [i \in CtxIds |-> [InitRNGBBS(NewContext) EXCEPT !.zSeed = MpFromNat(n),
                                                                    !.zModulus = mo]]
          /\ out = [op |-> "seed", n |-> n, zModulus |-> mo]
    /\ proc = "running"
    /\ hist = [i \in CtxIds |-> NoHist]

DoneBBSCheckInitialSeed(i, r) ==
    /\ ctx' = [ctx EXCEPT ![i].zSeed = r.zSeed]
    /\ out' = [op |-> "BBSCheckInitialSeed", n |-> out.n, zModulus |-> out.zModulus,
               zSeed |-> r.zSeed, ret |-> r.ret, iAttempt |-> r.iAttempt]
    /\ UNCHANGED << rng, proc, hist >>

CallBBSCheckInitialSeed(i) ==
    /\ out.op = "seed"
    /\ DoneBBSCheckInitialSeed(i, BBSCheckInitialSeed(ctx[i].zSeed, ctx[i].zModulus))

NextSeedCheck == CallBBSCheckInitialSeed(1)

SpecSeedCheck == InitSeedCheck /\ [][NextSeedCheck]_vars

(***************************************************************************)
(* The dice file of one context of RNG_FILE: OpenDiceFile, RollDice and    *)
(* CloseRNG(RNG_FILE, rngctx) in any order.  out records the stream each   *)
(* call found in fDice.                                                    *)
(***************************************************************************)
InitFile == InitWith({1}) /\ rng[1] = RNG_FILE

\* fclose of a stream that is closed already is undefined: the call
\* returns, or the process dies in it
UBCloses == {"return", "crash"}

DoneOpenDiceFile(i, sz, c) ==
    /\ ctx' = [ctx EXCEPT ![i] = c]
    /\ out' = [op |-> "OpenDiceFile", id |-> i, rngx |-> rng[i], sz |-> sz,
               returned |-> TRUE, fDice |-> ctx[i].fDice]
    /\ UNCHANGED << rng, proc, hist >>

CallOpenDiceFile(i, sz) ==
    /\ proc = "running"
    /\ rng[i] = RNG_FILE
    /\ DoneOpenDiceFile(i, sz, OpenDiceFile(ctx[i], sz))

DoneCloseRNG(i, ub, c) ==
    /\ ctx' = [ctx EXCEPT ![i] = c]
    /\ proc' = IF ctx[i].fDice.st = "closed" /\ ub = "crash" THEN "crashed" ELSE "running"
    /\ out' = [op |-> "CloseRNG", id |-> i, rngx |-> rng[i],
               returned |-> ~(ctx[i].fDice.st = "closed" /\ ub = "crash"),
               fDice |-> ctx[i].fDice]
    /\ UNCHANGED << rng, hist >>

CallCloseRNG(i, ub) ==
    /\ proc = "running"
    /\ rng[i] = RNG_FILE
    /\ DoneCloseRNG(i, ub, CloseRNG(rng[i], ctx[i]))

DoneRollDiceOnFile(i, r) ==
    /\ ctx' = [ctx EXCEPT ![i] = r.ctx]
    /\ rng' = [rng EXCEPT ![i] = r.rng]
    /\ proc' = CASE r.end = "return" -> "running"
                 [] r.end = "hang" -> "hung"
                 [] r.end = "crash" -> "crashed"
    /\ out' = [op |-> "RollDice", id |-> i, rngx |-> rng[i], returned |-> r.end = "return",
               ret |-> r.ret, anDice |-> r.anDice, attempts |-> r.attempts,
               fDice |-> ctx[i].fDice]
    /\ UNCHANGED hist

CallRollDiceOnFile(i, env) ==
    /\ proc = "running"
    /\ rng[i] = RNG_FILE
    /\ ctx[i].c < MaxCount
    /\ DoneRollDiceOnFile(i, RollDice(rng[i], ctx[i], env))

NextFile ==
    \/ \E sz \in FileNames : CallOpenDiceFile(1, sz)
    \/ \E ub \in UBCloses : CallCloseRNG(1, ub)
    \/ \E env \in RollEnvs(rng[1], ctx[1]) : CallRollDiceOnFile(1, env)

SpecFile == InitFile /\ [][NextFile]_vars

(***************************************************************************)
(* Properties.                                                             *)
(***************************************************************************)
\* a die that is a face: 1 to 6
IsFace(d) == d.h <= 3 /\ 2 * d.h + d.b >= 1 /\ 2 * d.h + d.b <= 6

\* the last call is a RollDice that came back
RollReturned == out.op = "RollDice" /\ out.returned

\* C1: for every generator but RNG_MANUAL, whatever the state of the
\* context, the dice RollDice returns are both between 1 and 6.
C1_DiceInRange ==
    (RollReturned /\ out.rngx # RNG_MANUAL) => (IsFace(out.anDice[1]) /\ IsFace(out.anDice[2]))

\* a roll on a dice file that could not be read came back with dice of
\* the fallback generator
C1_Witness ==
    /\ RollReturned
    /\ out.rngx = RNG_FILE
    /\ out.attempts[1].anDice[1] = U32(2147483647, 1)
    /\ Len(out.attempts) = 2
    /\ IsFace(out.anDice[1]) /\ IsFace(out.anDice[2])

\* the first backend of the last roll gave a die outside 1..6 to the check
\* that follows the switch (the RNG_MANUAL branch returns before it)
FirstPairBad ==
    /\ out.op = "RollDice"
    /\ out.rngx # RNG_MANUAL
    /\ out.attempts[1].done
    /\ ~(IsFace(out.attempts[1].anDice[1]) /\ IsFace(out.attempts[1].anDice[2]))

\* C2: when the backend gives a pair with a die outside 1..6, RollDice
\* selects RNG_MERSENNE once and rolls again once; the second pair is in
\* range and is the one returned; no call nests deeper than one level.
C2_OneFallback ==
    /\ out.op = "RollDice" => Len(out.attempts) <= 2
    /\ FirstPairBad =>
          /\ out.returned
          /\ Len(out.attempts) = 2
          /\ out.attempts[2].rngx = RNG_MERSENNE
          /\ rng[out.id] = RNG_MERSENNE
          /\ IsFace(out.attempts[2].anDice[1]) /\ IsFace(out.attempts[2].anDice[2])
          /\ out.anDice = out.attempts[2].anDice
    /\ (out.op = "RollDice" /\ ~FirstPairBad /\ out.returned) =>
          (Len(out.attempts) = 1 /\ rng[out.id] = out.rngx)

\* random.org answered 3 and then 7: one selection of RNG_MERSENNE, one more roll
C2_Witness ==
    /\ FirstPairBad
    /\ out.rngx = RNG_RANDOM_DOT_ORG
    /\ out.attempts[1].anDice = << U32(1, 1), U32(3, 1) >>
    /\ Len(out.attempts) = 2
    /\ rng[out.id] = RNG_MERSENNE

\* the attempts of the last roll made by RNG_ISAAC or RNG_MERSENNE
SamplerAttempts ==
    IF out.op = "RollDice"
    THEN {k \in 1..Len(out.attempts) : out.attempts[k].rngx \in {RNG_ISAAC, RNG_MERSENNE}}
    ELSE {}

\* the raw values of a backend that were converted, in order
UsedDraws(draws) == SelectSeq(draws, LAMBDA d : d.used)

\* C3: in the RNG_ISAAC and RNG_MERSENNE branches a raw value r becomes a
\* die only when r < 4294967292, the die is then 1 + r / 715827882 and
\* lies in 1..6; a raw value of 4294967292 or more is drawn again.
C3_SamplerRejects ==
    \A k \in SamplerAttempts :
        LET a == out.attempts[k]
            used == UsedDraws(a.log.draws)
        IN  /\ \A j \in 1..Len(a.log.draws) :
                  a.log.draws[j].used <=> (a.log.draws[j].raw.h < 2147483646)
            /\ Len(used) = 2
            /\ a.log.draws[Len(a.log.draws)].used
            /\ \A j \in 1..2 :
                  /\ DieValue(a.anDice[j]) = 1 + (used[j].raw.h \div 357913941)
                  /\ IsFace(a.anDice[j])

\* a roll of RNG_ISAAC drew 4294967292 or more, passed it over, and went on
C3_Witness ==
    /\ RollReturned
    /\ out.rngx = RNG_ISAAC
    /\ \E j \in 1..Len(out.attempts[1].log.draws) :
          /\ ~out.attempts[1].log.draws[j].used
          /\ out.attempts[1].log.draws[j].raw.h >= 2147483646
    /\ Len(out.attempts[1].log.draws) >= 3

\* C4: the sampler has no bias: with q = 715827882 = floor(2^32 / 6) and
\* limit = 6 q = 4294967292, every raw value below the limit is converted,
\* and a raw value gives face f exactly when (f - 1) q <= r < f q, so each
\* face has the q raw values of one bucket.
C4_SamplerUnbiased ==
    /\ exp232_l.h = 3 * exp232_q /\ exp232_l.b = 0
    /\ exp232_l.h + 1 = 2147483647
    /\ \A k \in SamplerAttempts :
          \A j \in 1..Len(out.attempts[k].log.draws) :
              LET d == out.attempts[k].log.draws[j]
                  nth == Len(UsedDraws(SubSeq(out.attempts[k].log.draws, 1, j)))
                  f == DieValue(out.attempts[k].anDice[nth])
              IN  /\ d.raw.h < 3 * 715827882 => d.used
                  /\ d.used => /\ (f - 1) * 357913941 <= d.raw.h
                               /\ d.raw.h < f * 357913941

\* a roll converted the last raw value of the first bucket and the first of the next
C4_Witness ==
    /\ RollReturned
    /\ \E k \in SamplerAttempts :
          \E i, j \in 1..Len(out.attempts[k].log.draws) :
              /\ out.attempts[k].log.draws[i] = [raw |-> U32(357913940, 1), used |-> TRUE]
              /\ out.attempts[k].log.draws[j] = [raw |-> U32(357913941, 0), used |-> TRUE]

\* how many of the bit strings of length n make BBSGetTrit return v
TritWeight(n, v) ==
    Cardinality({b \in BitStrings(n) : TritOnBits(0, b, 0).ended /\ TritOnBits(0, b, 0).trit = v})

\* how many leave it running
TritOpen(n) == Cardinality({b \in BitStrings(n) : ~TritOnBits(0, b, 0).ended})

\* C5: on fair bits BBSGetTrit returns 0, 1 and 2 with probability 1/3
\* each, and nothing else.  Among the 2^n bit strings of length n, as many
\* end with 0 as with 2, those that end with 1 are as many (n odd) or one
\* fewer (n even), and two strings have not ended; so the probability of
\* each value within n bits is within 4 / (3 * 2^n) of 1/3.
C5_TritUniform ==
    out.op = "BBSGetTrit" =>
        LET n == Len(out.bits)
        IN  /\ out.ended => (out.trit \in {0, 1, 2} /\ out.used >= 2 /\ out.used <= n)
            /\ TritWeight(n, 0) = TritWeight(n, 2)
            /\ TritWeight(n, 1) = TritWeight(n, 0) - (IF n % 2 = 0 /\ n > 0 THEN 1 ELSE 0)
            /\ TritOpen(n) = (IF n = 0 THEN 1 ELSE 2)
            /\ \A v \in {0, 1, 2} :
                  /\ 3 * TritWeight(n, v) <= Cardinality(BitStrings(n))
                  /\ Cardinality(BitStrings(n)) - 3 * TritWeight(n, v) <= 4

\* BBSGetTrit returned 1 on its fifth bit
C5_Witness == out.op = "BBSGetTrit" /\ out.ended /\ out.trit = 1 /\ out.used = 5

\* the attempts of the last roll that RNG_BBS made and that drew both dice
BBSAttemptsDone ==
    IF out.op = "RollDice"
    THEN {k \in 1..Len(out.attempts) :
             out.attempts[k].rngx = RNG_BBS /\ Len(out.attempts[k].log.bbs) = 2}
    ELSE {}

\* the square of the seed z modulo the modulus of the context that rolled
SquareOf(z) ==
    LET m == IF ctx[out.id].zModulus < 0 THEN 0 - ctx[out.id].zModulus ELSE ctx[out.id].zModulus
    IN  (MpMod(z, m) * MpMod(z, m)) % m

\* C6: a die of RNG_BBS is trit + 3 * bit + 1 for one trit and the one
\* bit squared out of the seed right after it; it lies in 1..6, and each
\* face comes from one (trit, bit) pair only.
C6_BBSDie ==
    /\ \A f \in 1..6 :
          Cardinality({tb \in (0..2) \X (0..1) : tb[1] + 3 * tb[2] + 1 = f}) = 1
    /\ \A k \in BBSAttemptsDone :
          \A j \in 1..2 :
              LET e == out.attempts[k].log.bbs[j]
                  d == out.attempts[k].anDice[j]
              IN  /\ e.trit \in 0..2 /\ e.bit \in 0..1
                  /\ DieValue(d) = e.trit + 3 * e.bit + 1
                  /\ IsFace(d)
                  /\ Len(e.pre) >= 3
                  /\ \A x \in 1..(Len(e.pre) - 1) : MpToNat(e.pre[x + 1]) = SquareOf(e.pre[x])
                  /\ e.bit = SquareOf(e.pre[Len(e.pre)]) % 2
                  /\ TritOnBits(0, [x \in 1..(Len(e.pre) - 1) |-> SquareOf(e.pre[x]) % 2], 0)
                        = [ended |-> TRUE, trit |-> e.trit, used |-> Len(e.pre) - 1]

\* RNG_BBS rolled a die with the bit set and a die with the bit clear
C6_Witness ==
    /\ RollReturned
    /\ Len(out.attempts) = 1
    /\ \E k \in BBSAttemptsDone :
          /\ out.attempts[k].log.bbs[1].bit # out.attempts[k].log.bbs[2].bit
          /\ out.attempts[k].log.bbs[1].trit # out.attempts[k].log.bbs[2].trit

\* the generators the determinism of a seed is claimed for
SeedPairs(kinds) ==
    {p \in CtxIds \X CtxIds :
        /\ hist[p[1]].seeded /\ hist[p[2]].seeded
        /\ hist[p[1]].rngx = hist[p[2]].rngx
        /\ hist[p[1]].rngx \in kinds
        /\ hist[p[1]].n = hist[p[2]].n
        /\ Len(hist[p[1]].rolls) = Len(hist[p[2]].rolls)}

BadSeedString(sz) == ~sz.ok \/ (sz.neg /\ sz.mag # << >>)

\* C8: InitRNGSeedLong on a negative or non-numeric string returns -1 and
\* leaves every field of the context as it was, whatever the generator.
C8_BadSeedStringRejected ==
    [][(out'.op = "InitRNGSeedLong" /\ BadSeedString(out'.sz))
          => (out'.ret = -1 /\ out'.returned /\ ctx' = ctx /\ rng' = rng /\ proc' = proc)]_vars

\* "-5" was refused on a context of RNG_BBS that had rolled
C8_Witness ==
    /\ out.op = "InitRNGSeedLong"
    /\ out.sz.ok /\ out.sz.neg
    /\ out.ret = -1
    /\ out.rngx = RNG_BBS
    /\ ctx[out.id].c > 0

\* the dice of the bytes of a file, in file order
ValidFaces(bytes) == SelectSeq(bytes, LAMBDA uch : uch >= 49 /\ uch <= 54)

\* how many dice lie before the position of the stream f
FacesBefore(f) == Len(ValidFaces(SubSeq(FileBytes[f.name], 1, f.pos)))

\* the k-th die of the file read round and round, k counted from 0
CyclicFace(name, k) ==
    ValidFaces(FileBytes[name])[(k % Len(ValidFaces(FileBytes[name]))) + 1] - 48

\* the roll that a step makes on the open, readable file of a context whose
\* bytes hold a die
FileRollStep ==
    /\ out'.op = "RollDice"
    /\ out'.rngx = RNG_FILE
    /\ ctx[out'.id].fDice.st = "open"
    /\ FileReadable(ctx[out'.id].fDice.name)
    /\ ValidFaces(FileBytes[ctx[out'.id].fDice.name]) # << >>

\* C9: on a file that holds at least one of '1'..'6', the dice read are the
\* valid bytes of the file in order, round and round: a roll gives the next
\* two of them and leaves the stream after the second; other bytes are
\* skipped, and the end of the file rewinds without a failure.
C9_FileCycle ==
    [][FileRollStep =>
          LET f == ctx[out'.id].fDice
              g == ctx'[out'.id].fDice
              n == Len(ValidFaces(FileBytes[f.name]))
          IN  /\ out'.returned /\ out'.ret = 0
              /\ Len(out'.attempts) = 1
              /\ rng'[out'.id] = RNG_FILE
              /\ DieValue(out'.anDice[1]) = CyclicFace(f.name, FacesBefore(f))
              /\ DieValue(out'.anDice[2]) = CyclicFace(f.name, FacesBefore(f) + 1)
              /\ g.name = f.name /\ g.st = "open"
              /\ FacesBefore(g) % n = (FacesBefore(f) + 2) % n]_vars

\* the file 1, 9, 3, 6 gave 6 and then, after a rewind, 1
C9_Witness ==
    /\ RollReturned
    /\ out.rngx = RNG_FILE
    /\ Len(out.attempts) = 1
    /\ ctx[out.id].fDice.name = "f1936"
    /\ out.anDice = << U32(3, 0), U32(0, 1) >>
    /\ out.attempts[1].log.rewinds = 1

\* x = 3 (mod 4), x >= 19, x prime
GoodFactor(x) == x >= 19 /\ x % 4 = 3 /\ \A d \in 2..(x - 1) : x % d # 0

\* the first good value above x other than avoid
NextGoodFactor(x, avoid) ==
    CHOOSE g \in (x + 1)..(x + 60) :
        /\ GoodFactor(g) /\ g # avoid
        /\ \A h \in (x + 1)..(g - 1) : ~(GoodFactor(h) /\ h # avoid)

\* C10: InitRNGBBSFactors on two positive candidates succeeds with factors
\* p and q that are good (at least 19, 3 mod 4, prime) and distinct: a
\* good candidate is kept (for q: when it also differs from p), another is
\* replaced by the next good value above it; the modulus is p * q.  From
\* 4 and 9 the factors are 19 and 23 and the modulus 437.
C10_Factors ==
    (/\ out.op = "InitRNGBBSFactors"
     /\ out.sz0.ok /\ out.sz1.ok
     /\ out.sz0.val >= 1 /\ out.sz1.val >= 1)
    => /\ out.ret = 0
       /\ GoodFactor(out.p) /\ GoodFactor(out.q)
       /\ out.p # out.q
       /\ out.p = IF GoodFactor(out.sz0.val) THEN out.sz0.val
                  ELSE NextGoodFactor(out.sz0.val, 0)
       /\ out.q = IF GoodFactor(out.sz1.val) /\ out.sz1.val # out.p THEN out.sz1.val
                  ELSE NextGoodFactor(out.sz1.val, out.p)
       /\ ctx[out.id].fZInit
       /\ ctx[out.id].zModulus = out.p * out.q
       /\ (out.sz0.val = 4 /\ out.sz1.val = 9)
             => (out.p = 19 /\ out.q = 23 /\ ctx[out.id].zModulus = 437)

\* the candidates 4 and 9 gave 19, 23 and 437
C10_Witness ==
    /\ out.op = "InitRNGBBSFactors"
    /\ out.sz0 = Num(4) /\ out.sz1 = Num(9)
    /\ out.p = 19 /\ out.q = 23
    /\ ctx[out.id].zModulus = 437

\* m = p * q for two distinct good factors, hence odd
BlumModulus(m) ==
    /\ m % 2 = 1
    /\ \E p \in 19..(m \div 19) :
          /\ m % p = 0
          /\ p # m \div p
          /\ GoodFactor(p) /\ GoodFactor(m \div p)

\* the calls that roll or seed
RollOrSeedOps == {"RollDice", "InitRNGSeed", "InitRNGSeedLong", "RNGSystemSeed"}

\* C11: once InitRNGBBSFactors or InitRNGBBSModulus has configured the
\* modulus (the call returned 0), the modulus is odd and the product of two
\* distinct good factors; no roll and no seed operation changes it.
C11_ModulusBlum ==
    /\ [](\A i \in CtxIds :
            (/\ out.op \in {"InitRNGBBSModulus", "InitRNGBBSFactors"}
             /\ out.id = i /\ out.returned /\ out.ret = 0)
            => BlumModulus(ctx[i].zModulus))
    /\ [][out'.op \in RollOrSeedOps
            => \A i \in CtxIds : ctx'[i].zModulus = ctx[i].zModulus]_vars

\* C11, the part that holds: a modulus configured by InitRNGBBSFactors is
\* odd and the product of two distinct good factors, and no roll and no
\* seed operation changes the modulus, whatever configured it.
C11_ModulusFixed ==
    /\ [](\A i \in CtxIds :
            (/\ out.op = "InitRNGBBSFactors"
             /\ out.id = i /\ out.returned /\ out.ret = 0)
            => BlumModulus(ctx[i].zModulus))
    /\ [][out'.op \in RollOrSeedOps
            => \A i \in CtxIds : ctx'[i].zModulus = ctx[i].zModulus]_vars

\* InitRNGBBSModulus returned 0 on "21" and the modulus is 21 = 3 * 7
C11_Witness ==
    /\ out.op = "InitRNGBBSModulus" /\ out.returned /\ out.ret = 0
    /\ out.sz = Num(21)
    /\ ctx[out.id].zModulus = 21
    /\ ~BlumModulus(21)

\* the seeds the bits of attempt a of the last roll were drawn from
BitSeeds(a) ==
    UNION {{a.log.bbs[j].pre[k] : k \in DOMAIN a.log.bbs[j].pre} : j \in DOMAIN a.log.bbs}

\* 1 < s < m; a seed of two limbs or more is above every modulus of the model
SeedInRange(s, m) == MpToNat(s) > 1 /\ MpToNat(s) < m
\* C12: every bit BBSGetBit draws during a roll is drawn from a seed with
\* 0 < seed < modulus and seed # 1; no seed 0 or 1 is squared for a bit of
\* a die that is returned.
C12_BitSeedsInRange ==
    out.op = "RollDice"
    => \A k \in DOMAIN out.attempts :
          out.attempts[k].rngx = RNG_BBS
          => /\ \A s \in BitSeeds(out.attempts[k]) :
                   SeedInRange(s, ctx[out.id].zModulus)
             /\ (out.returned /\ k = Len(out.attempts))
                   => \A s \in BitSeeds(out.attempts[k]) : MpToNat(s) \notin {0, 1}

\* a returned die of RNG_BBS has a bit squared out of the seed 1
C12_SeedOneSquared ==
    /\ RollReturned
    /\ Len(out.attempts) = 1 /\ out.attempts[1].rngx = RNG_BBS
    /\ \E s \in BitSeeds(out.attempts[1]) : MpToNat(s) = 1

\* a bit of RNG_BBS is squared out of a seed that is not below the modulus
C12_SeedAboveModulus ==
    /\ RollReturned
    /\ Len(out.attempts) = 1 /\ out.attempts[1].rngx = RNG_BBS
    /\ \E s \in BitSeeds(out.attempts[1]) :
          MpToNat(s) = -1 \/ MpToNat(s) >= ctx[out.id].zModulus

\* v squared k times modulo mo
RECURSIVE PowerOfTwoSquarings(_, _, _)
PowerOfTwoSquarings(v, k, mo) ==
    IF k = 0 THEN v % mo ELSE PowerOfTwoSquarings((v * v) % mo, k - 1, mo)

\* the seed v, squared 8 times, comes back to itself within 16 squarings
ShortCycle(v, mo) ==
    \E i \in 1..16 :
        PowerOfTwoSquarings(PowerOfTwoSquarings(v, 8, mo), i, mo) = PowerOfTwoSquarings(v, 8, mo)

\* the seed n is not positive, or n, n + 1, .., n + 31 all have a short cycle
SeedCheckFails(n, mo) ==
    \/ n = MpZero
    \/ mo > 0 /\ \A a \in 0..31 : ShortCycle((MpMod(n, mo) + a) % mo, mo)

\* the seed a seeding call o hands to the generator
GivenSeed(o) ==
    CASE o.op = "InitRNGSeed" -> MpFromU32(o.n)
      [] o.op = "InitRNGSeedLong" -> o.sz.mag
      [] o.op = "RNGSystemSeed" -> IF o.usedOS THEN o.ent.mpzn ELSE MpFromU32(o.clock)

\* the seeding call o reached the generator
SeedGiven(o) ==
    /\ o.op \in {"InitRNGSeed", "InitRNGSeedLong", "RNGSystemSeed"}
    /\ o.returned
    /\ o.op = "InitRNGSeedLong" => (o.sz.ok /\ ~(o.sz.neg /\ o.sz.mag # MpZero))

\* C13: a BBS seeding whose seed is not positive or whose 32 attempts all
\* fail leaves the BBS seed 0; while the seed is 0 (no reseed) a roll on
\* RNG_BBS fails BBSCheck before any bit is drawn: its BBS branch draws no
\* bit, leaves the seed 0 and does not advance the counter.
C13_SeedFault ==
    [][\A i \in CtxIds :
         /\ (/\ SeedGiven(out') /\ out'.id = i /\ rng[i] = RNG_BBS
             /\ SeedCheckFails(GivenSeed(out'), ctx[i].zModulus))
            => ctx'[i].zSeed = MpZero
         /\ (/\ out'.op \in {"InitRNGBBSModulus", "InitRNGBBSFactors"} /\ out'.id = i
             /\ ctx[i].fZInit /\ ctx[i].zSeed = MpZero)
            => ctx'[i].zSeed = MpZero
         /\ (/\ out'.op = "RollDice" /\ out'.id = i /\ rng[i] = RNG_BBS
             /\ ctx[i].zSeed = MpZero)
            => /\ out'.attempts[1].rngx = RNG_BBS
               /\ out'.attempts[1].log.bbs = << >>
               /\ out'.attempts[1].zSeed = MpZero
               /\ out'.attempts[1].c = ctx[i].c
               /\ ctx'[i].zSeed = MpZero]_vars

\* a roll on RNG_BBS with the seed 0: no bit drawn, the counter still 0
\* after the BBS branch, the dice from the fallback
C13_Witness ==
    /\ out.op = "RollDice" /\ out.rngx = RNG_BBS
    /\ out.attempts[1].rngx = RNG_BBS
    /\ out.attempts[1].log.bbs = << >>
    /\ out.attempts[1].zSeed = MpZero
    /\ out.attempts[1].c = 0
    /\ Len(out.attempts) = 2 /\ out.returned
    /\ ctx[out.id].zSeed = MpZero

\* C14: InitRNGSeedLong on RNG_BBS returns a failure whenever
\* BBSCheckInitialSeed fails on the seed, and 0 only when the seed passed
\* the check (and so is left positive).
C14_SeedFailureReported ==
    (out.op = "InitRNGSeedLong" /\ out.rngx = RNG_BBS /\ out.returned /\ out.ret = 0)
    => /\ ~SeedCheckFails(out.sz.mag, ctx[out.id].zModulus)
       /\ ctx[out.id].zSeed # MpZero

\* InitRNGSeedLong("3") under the modulus 21 returned 0; the check failed
\* and left the seed 0
C14_Witness ==
    /\ out.op = "InitRNGSeedLong" /\ out.rngx = RNG_BBS /\ out.returned
    /\ out.sz = SeedStr(TRUE, FALSE, << U32(1, 1) >>)
    /\ ctx[out.id].zModulus = 21
    /\ SeedCheckFails(out.sz.mag, 21)
    /\ ctx[out.id].zSeed = MpZero
    /\ out.ret = 0

\* the last call was a roll on RNG_BBS that failed BBSCheck: the seed was 0
\* or 1 and the BBS branch drew no bit
BBSFaultHit ==
    /\ out.op = "RollDice" /\ out.rngx = RNG_BBS /\ out.returned
    /\ out.attempts[1].rngx = RNG_BBS
    /\ out.attempts[1].log.bbs = << >>
    /\ out.attempts[1].zSeed = MpZero

\* C15: after a roll on RNG_BBS hit the seed fault the generator selected
\* is still RNG_BBS, its seed is still faulty so that further rolls fail
\* the same way, and the roll did not come back as a success.
C15_FaultStaysOnBBS ==
    BBSFaultHit
    => /\ rng[out.id] = RNG_BBS
       /\ BBSCheck(ctx[out.id].zSeed) # 0
       /\ out.ret # 0

\* a roll on RNG_BBS hit the seed fault and came back with 0 and dice of
\* RNG_MERSENNE, which is the generator selected from then on
C15_Witness ==
    /\ BBSFaultHit
    /\ out.ret = 0
    /\ IsFace(out.anDice[1]) /\ IsFace(out.anDice[2])
    /\ Len(out.attempts) = 2 /\ out.attempts[2].rngx = RNG_MERSENNE
    /\ rng[out.id] = RNG_MERSENNE

\* the state of generator rngx in the context c
BackendState(rngx, c) ==
    CASE rngx = RNG_BBS -> << c.zSeed >>
      [] rngx = RNG_ISAAC -> << c.rc >>
      [] rngx = RNG_MD5 -> << c.nMD5 >>
      [] rngx = RNG_MERSENNE -> << c.sfmt >>
      [] OTHER -> << >>

\* a context with the modulus mo whose generators are all in states no
\* seeding of the model gives
UsedContext(mo) ==
    [NewContext EXCEPT !.fZInit = TRUE, !.zModulus = mo, !.zSeed = << U32(8, 1) >>,
                       !.c = 3, !.nMD5 = U32Max,
                       !.rc = irand(irandinit(KeyArray(<< >>, U32Max))).rc,
                       !.sfmt = sfmt_genrand_uint32(sfmt_init_gen_rand(U32Max)).sfmt]

\* the seeding call o made on generator rngx of the context c
SeedAgain(o, rngx, c) ==
    IF o.op = "InitRNGSeed" THEN InitRNGSeed(o.n, rngx, c).ctx
    ELSE IF o.op = "RNGSystemSeed" /\ ~o.usedOS THEN InitRNGSeed(o.clock, rngx, c).ctx
    ELSE InitRNGSeedMP(GivenSeed(o), rngx, c).ctx

\* C16: InitRNGSeed(n) and InitRNGSeedMP(n) leave the counter 0 whatever
\* the generator, and the state they give RNG_BBS, RNG_ISAAC, RNG_MD5 and
\* RNG_MERSENNE depends on n (and for RNG_BBS the modulus) only: it is the
\* state the same call gives a context used otherwise.
C16_SeedInstalls ==
    [][\A i \in CtxIds :
         (SeedGiven(out') /\ out'.id = i)
         => /\ ctx'[i].c = 0
            /\ BackendState(rng[i], ctx'[i])
                 = BackendState(rng[i], SeedAgain(out', rng[i], UsedContext(ctx[i].zModulus)))]_vars

\* InitRNGSeedLong("4294967301") on RNG_ISAAC: the counter is 0 and the
\* generator is the one irandinit makes of the two limbs
C16_Witness ==
    /\ SeedGiven(out) /\ out.op = "InitRNGSeedLong" /\ out.rngx = RNG_ISAAC
    /\ out.sz.mag = << U32(2, 1), U32(0, 1) >>
    /\ ctx[out.id].c = 0
    /\ ctx[out.id].rc = irandinit(KeyFromLimbs(out.sz.mag, RANDSIZ))
    /\ ctx[out.id].rc # UsedContext(0).rc

\* the roll that ends in the next state came back from its first backend
RolledNoFallback(i) ==
    /\ out'.op = "RollDice" /\ out'.id = i /\ out'.returned
    /\ Len(out'.attempts) = 1

\* C17: the counter is the number of dice drawn since the last seed,
\* whatever the generator: a roll that does not fall back adds exactly 2
\* (two dice), so that k rolls after a seed leave 2k; between seeds the
\* counter never goes down.
C17_CounterCounts ==
    [][\A i \in CtxIds :
         /\ (RolledNoFallback(i) /\ out'.ret = 0) => ctx'[i].c = ctx[i].c + 2
         /\ (out'.op \in {"InitRNGBBSModulus", "InitRNGBBSFactors"} \/ RolledNoFallback(i))
            => ctx'[i].c >= ctx[i].c]_vars

\* C17 for RNG_BBS, RNG_ISAAC, RNG_MD5, RNG_MERSENNE and RNG_FILE only: a
\* roll that does not fall back adds exactly 2 to the counter; no call but
\* a seeding, or a roll that falls back and so seeds RNG_MERSENNE, lowers it.
C17_CounterCountsFive ==
    [][\A i \in CtxIds :
         /\ (RolledNoFallback(i) /\ rng[i] \notin {RNG_MANUAL, RNG_RANDOM_DOT_ORG})
            => ctx'[i].c = ctx[i].c + 2
         /\ (out'.op \in {"InitRNGBBSModulus", "InitRNGBBSFactors"} \/ RolledNoFallback(i))
            => ctx'[i].c >= ctx[i].c]_vars

\* a roll on RNG_RANDOM_DOT_ORG gave the dice 3 and 2 from two requests and
\* the counter is still 0
C17_Witness ==
    /\ out.op = "RollDice" /\ out.rngx = RNG_RANDOM_DOT_ORG /\ out.returned
    /\ Len(out.attempts) = 1 /\ out.attempts[1].log.requests = 2
    /\ out.anDice = << U32(1, 1), U32(1, 0) >>
    /\ ctx[out.id].c = 0

\* the value d, read as the int getDiceRandomDotOrg returned, is not positive
NotPositive(d) == U32Eq(d, U32Zero) \/ d.h >= 1073741824

\* C18: a roll on RNG_RANDOM_DOT_ORG makes one request for the first die;
\* when the reply is not positive it makes no second request and the
\* second die equals the first, else it makes exactly one more request.
C18_NetRequests ==
    (out.op = "RollDice" /\ out.rngx = RNG_RANDOM_DOT_ORG)
    => LET a == out.attempts[1]
       IN  /\ a.rngx = RNG_RANDOM_DOT_ORG
           /\ IF NotPositive(a.anDice[1])
              THEN a.log.requests = 1 /\ a.anDice[2] = a.anDice[1]
              ELSE a.log.requests = 2

\* the first request failed with -1 and a second request was made, whose
\* reply 3 is the second die
C18_Witness ==
    /\ out.op = "RollDice" /\ out.rngx = RNG_RANDOM_DOT_ORG
    /\ out.attempts[1].anDice = << U32Max, U32(1, 1) >>
    /\ out.attempts[1].log.requests = 2

\* word k of a key array
KeyWord(key, k) == IF k <= Len(key.prefix) THEN key.prefix[k] ELSE key.rest

\* C19: InitRNGSeedLong on RNG_MERSENNE with n > UINT_MAX initialises the
\* generator by sfmt_init_by_array from the key whose words are the limbs
\* of n, the least significant first, then zeros up to SFMT_N32 words; two
\* such seeds that differ give keys that differ.  With n <= UINT_MAX the
\* generator is initialised by sfmt_init_gen_rand(n).
C19_MersenneKey ==
    /\ [][\A i \in CtxIds :
            (/\ out'.op = "InitRNGSeedLong" /\ SeedGiven(out') /\ out'.id = i
             /\ rng[i] = RNG_MERSENNE)
            => IF Len(out'.sz.mag) > 1
               THEN /\ ctx'[i].sfmt.init = "by_array"
                    /\ \A k \in 1..SFMT_N32 :
                          KeyWord(ctx'[i].sfmt.key, k)
                            = IF k <= Len(out'.sz.mag) THEN out'.sz.mag[k] ELSE U32Zero
               ELSE ctx'[i].sfmt = sfmt_init_gen_rand(MpLowU32(out'.sz.mag))]_vars
    /\ [](\A i \in CtxIds, j \in CtxIds :
            (/\ rng[i] = RNG_MERSENNE /\ rng[j] = RNG_MERSENNE
             /\ Len(ctx[i].nz) > 1 /\ Len(ctx[j].nz) > 1
             /\ ctx[i].nz # ctx[j].nz)
            => \E k \in 1..SFMT_N32 :
                  KeyWord(ctx[i].sfmt.key, k) # KeyWord(ctx[j].sfmt.key, k))

\* two contexts of RNG_MERSENNE seeded with 4294967301 and 8589934597,
\* which have the same low word: initialised by array, from different keys
C19_Witness ==
    /\ rng[1] = RNG_MERSENNE /\ rng[2] = RNG_MERSENNE
    /\ out.op = "InitRNGSeedLong" /\ out.returned /\ out.ret = 0
    /\ ctx[1].nz = << U32(2, 1), U32(0, 1) >>
    /\ ctx[2].nz = << U32(2, 1), U32(1, 0) >>
    /\ ctx[1].sfmt.init = "by_array" /\ ctx[2].sfmt.init = "by_array"
    /\ ctx[1].sfmt.key # ctx[2].sfmt.key

\* PrintRNGSeed is called on context i right after InitRNGSeedLong gave
\* the context a seed above UINT_MAX, written as text
ShownAfterLongSeed(i, text) ==
    /\ out.op = "InitRNGSeedLong" /\ SeedGiven(out) /\ out.ret = 0 /\ out.id = i
    /\ out.sz.mag = MpFromDigits(text) /\ Len(out.sz.mag) > 1
    /\ out'.op = "PrintRNGSeed" /\ out'.id = i

\* n + k
RECURSIVE MpPlus(_, _)
MpPlus(n, k) == IF k = 0 THEN n ELSE MpPlus(MpInc(n), k - 1)

\* the first k below 32 for which n + k has no short cycle modulo mo
FirstGoodOffset(n, mo) ==
    CHOOSE k \in 0..31 :
        /\ ~ShortCycle((MpMod(n, mo) + k) % mo, mo)
        /\ \A j \in 0..(k - 1) : ShortCycle((MpMod(n, mo) + j) % mo, mo)

\* C20: PrintRNGSeed right after InitRNGSeedLong(v) with v above UINT_MAX
\* shows exactly the digits of v, for RNG_BBS, RNG_ISAAC and RNG_MERSENNE.
C20_LongSeedShown ==
    [][\A i \in CtxIds, text \in SeedTexts :
         (ShownAfterLongSeed(i, text) /\ rng[i] \in LongSeeded)
         => out'.shown.seed = text]_vars

\* C20 as the code has it: RNG_ISAAC and RNG_MERSENNE show exactly the
\* digits of v; RNG_BBS shows the seed BBSCheckInitialSeed left, which is
\* v + k for the first k < 32 whose seed passes the cycle test and 0 when
\* there is none, followed by the modulus.
C20_LongSeedShownAmended ==
    [][\A i \in CtxIds, text \in SeedTexts :
         ShownAfterLongSeed(i, text)
         => /\ rng[i] \in {RNG_ISAAC, RNG_MERSENNE} => out'.shown.seed = text
            /\ rng[i] = RNG_BBS
               => /\ out'.shown.modulus = IntDigits(ctx[i].zModulus)
                  /\ out'.shown.seed
                       = IF SeedCheckFails(MpFromDigits(text), ctx[i].zModulus)
                         THEN << 0 >>
                         ELSE MpDigits(MpPlus(MpFromDigits(text),
                                              FirstGoodOffset(MpFromDigits(text),
                                                              ctx[i].zModulus)))]_vars

\* RNG_MERSENNE shows 18446744073709551621, the seed it was given
C20_Witness ==
    /\ out.op = "PrintRNGSeed" /\ out.rngx = RNG_MERSENNE
    /\ out.shown.seed = << 1, 8, 4, 4, 6, 7, 4, 4, 0, 7, 3, 7, 0, 9, 5, 5, 1, 6, 2, 1 >>
    /\ ctx[out.id].nz = << U32(2, 1), U32Zero, U32(0, 1) >>
    /\ ctx[out.id].sfmt.init = "by_array"

\* the context that is not context i
Other(i) == 3 - i

\* C21: after CopyRNGContext a roll or a seed operation on one of the two
\* contexts leaves the whole state of the other unchanged: the backend
\* states, the BBS seed and modulus, the position in the dice file, the
\* counter.
C21_CopyIndependent ==
    [][(out'.op \in {"RollDice", "InitRNGSeed"})
         => ctx'[Other(out'.id)] = ctx[Other(out'.id)]]_vars

\* C21 for the fields held in the struct itself: a call on one context
\* leaves the ISAAC, MD5 and Mersenne states, the counter, the word seed,
\* the modulus and the file name of the other unchanged.
C21_CopyInlineFields ==
    [][(out'.op \in {"RollDice", "InitRNGSeed"})
         => LET a == ctx[Other(out'.id)]
                b == ctx'[Other(out'.id)]
            IN  /\ a.rc = b.rc /\ a.nMD5 = b.nMD5 /\ a.sfmt = b.sfmt
                /\ a.c = b.c /\ a.n = b.n /\ a.fZInit = b.fZInit
                /\ a.zModulus = b.zModulus
                /\ a.szDiceFilename = b.szDiceFilename]_vars

\* context 1 of RNG_FILE has not rolled (its counter is 0) and its file
\* stands after the third byte: the copy rolled 1, 3 from it
C21_Witness ==
    /\ out.op = "RollDice" /\ out.id = 2 /\ out.returned
    /\ out.anDice = << U32(0, 1), U32(1, 1) >>
    /\ rng[1] = RNG_FILE /\ ctx[1].c = 0
    /\ ctx[1].fDice = [st |-> "open", name |-> "f1936", pos |-> 3]

\* a call of RNGSystemSeed has returned
SystemSeeded == out.op = "RNGSystemSeed" /\ out.returned

\* C23: RNGSystemSeed takes the seed from the OS entropy source whenever
\* that source delivers, and the clock value only when it does not; it
\* returns TRUE exactly when the OS source gave the seed; and when the
\* caller passes a place for the seed, the value written there is the seed
\* the generator was given.
C23_SystemSeed ==
    SystemSeeded =>
        /\ out.ent.avail => out.usedOS
        /\ out.ret <=> out.usedOS
        /\ out.hasPn => ctx[out.id].nz = MpFromU32(out.seed)

\* C23 as the code has it: the OS source is used exactly when it delivers
\* and the caller passes no place for the seed; the result and the value
\* written are as stated.
C23_SystemSeedNoPlace ==
    SystemSeeded =>
        /\ out.usedOS <=> (out.ent.avail /\ ~out.hasPn)
        /\ out.ret <=> out.usedOS
        /\ out.hasPn => ctx[out.id].nz = MpFromU32(out.seed)
        /\ out.hasPn => out.seed = out.clock

\* /dev/urandom delivered, the caller passed a place for the seed, and the
\* seed is the clock value
C23_Witness ==
    /\ SystemSeeded
    /\ out.hasPn /\ out.ent.avail
    /\ ~out.usedOS /\ ~out.ret
    /\ out.seed = U32(4, 1)

\* C22: after CloseRNG and free_rngctx, whatever was called on the context
\* before, nothing the context held is still allocated or open: not the
\* dice file, not its name, not one of the mpz_t.
C22_DestroyReleasesAll == out.op = "free_rngctx" => out.live = {}

\* C22 for what the two functions do release: the struct, nz and the open
\* dice file are never left, and a context that was never given RNG_BBS or
\* a dice file leaves nothing.
C22_DestroyReleasesSome ==
    out.op = "free_rngctx" =>
        /\ out.live \subseteq BBSMpz \cup {"szDiceFilename"}
        /\ out.owned = {"rngctx", "nz"} => out.live = {}

\* a context of RNG_BBS was destroyed with its four mpz_t left allocated
C22_Witness ==
    /\ out.op = "free_rngctx" /\ out.rngx = RNG_BBS
    /\ out.owned = {"rngctx", "nz"} \cup BBSMpz
    /\ out.live = BBSMpz

\* the states BBSGetTrit is in when it draws the bits of bits, one by one,
\* from state on, up to the bit it returns on
RECURSIVE TritStates(_, _)
TritStates(state, bits) ==
    IF bits = << >> THEN << >>
    ELSE IF TritStep(state, Head(bits)).ret THEN << state >>
    ELSE << state >> \o TritStates(TritStep(state, Head(bits)).state, Tail(bits))

\* a row of the table: on this bit in this state go to a state
GoesTo(state, bit, to) ==
    /\ ~TritStep(state, bit).ret
    /\ TritStep(state, bit).state = to

\* a row of the table: on this bit in this state return a trit
Returns(state, bit, trit) ==
    /\ TritStep(state, bit).ret
    /\ TritStep(state, bit).trit = trit

\* the rows that can be taken in a state
TableRows(state) ==
    CASE state = 0 -> GoesTo(0, 0, 1) /\ GoesTo(0, 1, 2)
      [] state = 1 -> Returns(1, 0, 0) /\ GoesTo(1, 1, 3)
      [] state = 2 -> GoesTo(2, 0, 4) /\ Returns(2, 1, 2)
      [] state = 3 -> GoesTo(3, 0, 1) /\ Returns(3, 1, 1)
      [] state = 4 -> Returns(4, 0, 1) /\ GoesTo(4, 1, 2)
      [] OTHER -> FALSE

\* C24: BBSGetTrit is the automaton of five states: state 0 goes to 1 on
\* bit 0 and to 2 on bit 1; state 1 returns 0 on bit 0 and goes to 3 on
\* bit 1; state 2 goes to 4 on bit 0 and returns 2 on bit 1; state 3 goes
\* to 1 on bit 0 and returns 1 on bit 1; state 4 returns 1 on bit 0 and
\* goes to 2 on bit 1.  Each transition draws one bit, and every state the
\* loop is in is one of 0..4.
C24_TritTable ==
    out.op = "BBSGetTrit" =>
        LET states == TritStates(0, out.bits)
        IN  /\ Len(states) = out.used
            /\ \A k \in 1..Len(states) : states[k] \in 0..4 /\ TableRows(states[k])
            /\ \A s \in 0..4 : TableRows(s)

\* BBSGetTrit went 0, 2, 4, 2 on the bits 1, 0, 1 and returned 2 on a 1
C24_Witness ==
    /\ out.op = "BBSGetTrit" /\ out.bits = << 1, 0, 1, 1 >>
    /\ TritStates(0, out.bits) = << 0, 2, 4, 2 >>
    /\ out.ended /\ out.trit = 2 /\ out.used = 4

\* 2^n
RECURSIVE TwoTo(_)
TwoTo(n) == IF n = 0 THEN 1 ELSE 2 * TwoTo(n - 1)

\* among the 2^n bit strings of length n, how many make BBSGetTrit return
\* on its k-th bit
ReturnsOnBit(n, k) ==
    Cardinality({b \in BitStrings(n) : TritOnBits(0, b, 0).ended /\ TritOnBits(0, b, 0).used = k})

\* the bits BBSGetTrit draws, summed over the bit strings of length n on
\* which it returns with at most k bits: 2^n times the part of the expected
\* number of bits that the runs of at most k bits make up
RECURSIVE BitsDrawn(_, _)
BitsDrawn(n, k) == IF k = 0 THEN 0 ELSE k * ReturnsOnBit(n, k) + BitsDrawn(n, k - 1)

\* C25: on fair bits the expected number of bits BBSGetTrit draws for a
\* trit is 2.5.  The runs of at most n bits are a part of that sum of
\* length * 2^-length, so their part never exceeds 2.5.
C25_ExpectedBits ==
    out.op = "BBSGetTrit" =>
        LET n == Len(out.bits)
        IN  2 * BitsDrawn(n, n) <= 5 * TwoTo(n)

\* C25 with the number the automaton has: BBSGetTrit returns on its k-th
\* bit (k >= 2) with probability 2^(1-k), the runs of at most n bits make
\* up 3 - (n + 2) / 2^(n-1) of the expected number of bits, and the
\* expected number is 3.
C25_ExpectedBitsThree ==
    out.op = "BBSGetTrit" =>
        LET n == Len(out.bits)
        IN  /\ \A k \in 1..n : ReturnsOnBit(n, k) * TwoTo(k) = (IF k = 1 THEN 0 ELSE 2 * TwoTo(n))
            /\ n >= 1 => BitsDrawn(n, n) = 3 * TwoTo(n) - 2 * (n + 2)
            /\ BitsDrawn(n, n) < 3 * TwoTo(n)

\* BBSGetTrit ran on five bits: the runs of at most five bits make up
\* 82 / 32 of the expected number of bits
C25_Witness ==
    /\ out.op = "BBSGetTrit" /\ Len(out.bits) = 5
    /\ BitsDrawn(5, 5) = 82
    /\ out.ended /\ out.used = 5

\* the candidate v, squared 8 times, comes back to that value after at least
\* one and at most most further squarings
RecursWithin(v, mo, most) ==
    \E i \in 1..most :
        PowerOfTwoSquarings(PowerOfTwoSquarings(v, 8, mo), i, mo) = PowerOfTwoSquarings(v, 8, mo)

\* BBSCheckInitialSeed on the seed n, if it rejects the candidates that
\* recur within most squarings: the first of n, .., n + 31 not rejected is
\* the seed and the result is 0; with all rejected the result is -1
ChecksSeed(o, most) ==
    LET good == {k \in 0..31 : ~RecursWithin(o.n + k, o.zModulus, most)}
    IN  IF good = {} THEN o.ret = -1
        ELSE /\ o.ret = 0
             /\ \E k \in good :
                   /\ \A j \in good : k <= j
                   /\ o.zSeed = MpFromNat(o.n + k)
                   /\ o.iAttempt = k

\* C26: for a positive seed s BBSCheckInitialSeed tries s, s + 1, ..,
\* s + 31 in this order; it squares the candidate 8 times for the
\* reference and rejects it exactly when the reference comes back after
\* fewer than 16 further squarings; the first candidate not rejected
\* becomes the seed and the result is 0.
C26_SeedCheckBelowSixteen ==
    (out.op = "BBSCheckInitialSeed" /\ out.n > 0) => ChecksSeed(out, 15)

\* C26 with the bound of the code: a candidate is rejected exactly when
\* the reference comes back after 16 or fewer further squarings.
C26_SeedCheckSixteen ==
    (out.op = "BBSCheckInitialSeed" /\ out.n > 0) => ChecksSeed(out, 16)

\* seed 7 under 19 * 1543: its reference comes back after 16 squarings and
\* not before; 7 and 8 were passed over and the seed is 9
C26_Witness ==
    /\ out.op = "BBSCheckInitialSeed" /\ out.n = 7 /\ out.zModulus = 29317
    /\ RecursWithin(7, 29317, 16) /\ ~RecursWithin(7, 29317, 15)
    /\ out.ret = 0 /\ out.zSeed = MpFromNat(9)

\* u + k modulo 2^32
RECURSIVE U32Step(_, _)
U32Step(u, k) == IF k = 0 THEN u ELSE U32Step(U32Inc(u), k - 1)

\* RollDice has returned from the branch of RNG_MD5
MD5Rolled ==
    /\ out.op = "RollDice" /\ out.returned
    /\ out.rngx = RNG_MD5 /\ Len(out.attempts) = 1

\* the seeds the roll gave to md5_buffer, in order
Digested == out.attempts[1].log.digests

\* C27: within one MD5 roll that starts at seed s the digests computed
\* are those of s, s + 1, s + 2, .. in this order, none twice; the dice
\* are taken from the last of them, the first that is accepted; and the
\* seed after the roll is one more than the seed of that digest, modulo
\* 2^32.
C27_DigestsInOrder ==
    MD5Rolled =>
        /\ \A k \in 1..Len(Digested) : Digested[k] = U32Step(Digested[1], k - 1)
        /\ \A j, k \in 1..Len(Digested) : Digested[j] = Digested[k] => j = k
        /\ out.anDice = << FaceOf(md5_buffer(Digested[Len(Digested)])[1]),
                           FaceOf(md5_buffer(Digested[Len(Digested)])[2]) >>
        /\ ctx[out.id].nMD5 = U32Inc(Digested[Len(Digested)])

\* C27 as the loop runs: a roll that rejects the digest of s computes it a
\* second time, then those of s + 1, s + 2, .., and leaves the seed two
\* above the seed of the digest it accepted; a roll that accepts the digest
\* of s leaves s + 1.
C27_DigestsAsCoded ==
    MD5Rolled =>
        /\ \A k \in 2..Len(Digested) : Digested[k] = U32Step(Digested[1], k - 2)
        /\ out.anDice = << FaceOf(md5_buffer(Digested[Len(Digested)])[1]),
                           FaceOf(md5_buffer(Digested[Len(Digested)])[2]) >>
        /\ ctx[out.id].nMD5 = U32Step(Digested[Len(Digested)], IF Len(Digested) = 1 THEN 1 ELSE 2)
        /\ Len(Digested) # 2

\* a roll rejected the digest of its seed, computed it again, accepted the
\* digest of the next seed and left the seed two above that
C27_Witness ==
    /\ MD5Rolled
    /\ Len(Digested) = 3 /\ Digested[2] = Digested[1] /\ Digested[3] = U32Inc(Digested[1])
    /\ ctx[out.id].nMD5 = U32Step(Digested[3], 2)

\* no dice file is open, or the one that is open cannot be read
NothingToRead(f) == f.st = "null" \/ (f.st = "open" /\ ~FileReadable(f.name))

\* ReadDiceFile comes back with (unsigned int) (-1)
ReadsSentinel(r) == r.ret = Sentinel /\ ~IsFace(r.ret) /\ ~r.hangs /\ ~r.crash

\* RollDice on RNG_FILE came back from the roll of the default generator
FellBack(r) ==
    /\ r.end = "return" /\ r.ret = 0
    /\ r.rng = RNG_MERSENNE
    /\ IsFace(r.anDice[1]) /\ IsFace(r.anDice[2])
    /\ Len(r.attempts) = 2
    /\ r.attempts[1].rngx = RNG_FILE /\ r.attempts[1].anDice = << Sentinel, Sentinel >>
    /\ r.attempts[2].rngx = RNG_MERSENNE

\* C28: ReadDiceFile returns (unsigned int) (-1), which is no face, when
\* no dice file is open or a read fails short of the end of the file; and
\* a roll of RNG_FILE that read it does not return it: RollDice selects
\* the default generator, rolls again and returns that roll.
C28_SentinelFallsBack ==
    /\ \A ub \in UBReads : ReadsSentinel(ReadDiceFile(FileNull, ub))
    /\ \A i \in CtxIds :
          (rng[i] = RNG_FILE /\ NothingToRead(ctx[i].fDice)) =>
              /\ ReadsSentinel(ReadDiceFile(ctx[i].fDice, "error"))
              /\ \A env \in RollEnvs(rng[i], ctx[i]) : FellBack(RollDice(rng[i], ctx[i], env))
    /\ (RollReturned /\ out.rngx = RNG_FILE /\ Sentinel \in {out.attempts[1].anDice[1], out.attempts[1].anDice[2]}) =>
          /\ Len(out.attempts) = 2
          /\ rng[out.id] = RNG_MERSENNE
          /\ IsFace(out.anDice[1]) /\ IsFace(out.anDice[2])

\* a roll of RNG_FILE on a directory: both reads failed, the dice returned
\* are those of RNG_MERSENNE
C28_Witness ==
    /\ RollReturned /\ out.rngx = RNG_FILE
    /\ ctx[out.id].fDice.name = "dir"
    /\ out.attempts[1].anDice = << Sentinel, Sentinel >>
    /\ Len(out.attempts) = 2 /\ rng[out.id] = RNG_MERSENNE
    /\ IsFace(out.anDice[1]) /\ IsFace(out.anDice[2])

\* the places of bits that hold the same bit as the place before
Repeats(bits) == {k \in 2..Len(bits) : bits[k] = bits[k - 1]}

\* the first of them
FirstRepeat(bits) == CHOOSE k \in Repeats(bits) : \A j \in Repeats(bits) : k <= j

\* C29: BBSGetTrit draws at least 2 bits and returns at the first bit
\* that equals the bit drawn just before it; it returns 1 when it has
\* drawn an odd number of bits, else 0 when the first bit was 0 and 2 when
\* it was 1.  On bits that alternate it has not returned, however many
\* of them were drawn.
C29_TritAtFirstRepeat ==
    out.op = "BBSGetTrit" =>
        IF Repeats(out.bits) = {}
        THEN ~out.ended /\ out.used = Len(out.bits)
        ELSE /\ out.ended
             /\ out.used = FirstRepeat(out.bits) /\ out.used >= 2
             /\ out.trit = (IF out.used % 2 = 1 THEN 1
                            ELSE IF out.bits[1] = 0 THEN 0 ELSE 2)

\* on 0, 1, 0, 0 BBSGetTrit returned 0 with the fourth bit
C29_Witness ==
    /\ out.op = "BBSGetTrit"
    /\ out.bits = << 0, 1, 0, 0 >> /\ Repeats(out.bits) = {4}
    /\ out.ended /\ out.trit = 0 /\ out.used = 4

\* the dice file of the stream f can be read
OpenReadable(f) == f.st = "open" /\ FileReadable(f.name)

\* C30: ReadDiceFile returns on every dice file that is open and can be
\* read, also on one with no byte '1'..'6' in it: it never rewinds without
\* end, so no roll of RNG_FILE on such a file fails to return.
C30_ReadTerminates ==
    /\ \A i \in CtxIds :
          (rng[i] = RNG_FILE /\ OpenReadable(ctx[i].fDice)) =>
              ~ReadDiceFile(ctx[i].fDice, "error").hangs
    /\ (out.op = "RollDice" /\ out.rngx = RNG_FILE /\ OpenReadable(ctx[out.id].fDice)) =>
          proc # "hung"

\* C30 for the files that hold a die: ReadDiceFile returns a face after at
\* most one rewind.
C30_ReadTerminatesOnDice ==
    \A i \in CtxIds :
        (rng[i] = RNG_FILE /\ OpenReadable(ctx[i].fDice)
           /\ ValidFaces(FileBytes[ctx[i].fDice.name]) # << >>) =>
            /\ ~ReadDiceFile(ctx[i].fDice, "error").hangs
            /\ IsFace(ReadDiceFile(ctx[i].fDice, "error").ret)
            /\ ReadDiceFile(ctx[i].fDice, "error").rewinds <= 1

\* a roll of RNG_FILE on the file "9\n" has not returned: ReadDiceFile
\* read the file through twice and goes on
C30_Witness ==
    /\ out.op = "RollDice" /\ out.rngx = RNG_FILE /\ ~out.returned
    /\ proc = "hung"
    /\ ctx[out.id].fDice.name = "junk" /\ OpenReadable(ctx[out.id].fDice)
    /\ ReadDiceFile(ctx[out.id].fDice, "error").hangs

\* a factor or modulus string that is missing, is no number, or is a
\* number below 1
NotPositiveString(sz) == sz.null \/ ~sz.ok \/ sz.val < 1

\* the step is a call of InitRNGBBSFactors
FactorsStep == out'.op = "InitRNGBBSFactors" /\ out'.returned

\* C31: InitRNGBBSFactors returns -1 and leaves the modulus of the context
\* as it was whenever the first or the second factor string is missing,
\* unparsable or not positive.
C31_FactorsRefused ==
    [][(FactorsStep /\ (NotPositiveString(out'.sz0) \/ NotPositiveString(out'.sz1)))
         => (out'.ret = -1 /\ ctx'[out'.id].zModulus = ctx[out'.id].zModulus)]_vars

\* C31 for the tests the code makes: the call is refused when the first
\* string is missing, unparsable or not positive, and when the second is
\* missing or unparsable.
C31_FactorsRefusedFirst ==
    [][(FactorsStep /\ (NotPositiveString(out'.sz0) \/ out'.sz1.null \/ ~out'.sz1.ok))
         => (out'.ret = -1 /\ ctx'[out'.id].zModulus = ctx[out'.id].zModulus)]_vars

\* the factors "4" and "-3" were accepted: the call returned 0 and the
\* modulus is 19 * 23
C31_Witness ==
    /\ out.op = "InitRNGBBSFactors"
    /\ out.sz0 = Num(4) /\ out.sz1 = Num(0 - 3)
    /\ out.ret = 0 /\ out.p = 19 /\ out.q = 23
    /\ ctx[out.id].zModulus = 437

\* the step is a call of InitRNGBBSModulus that returned -1
ModulusRefused == out'.op = "InitRNGBBSModulus" /\ out'.returned /\ out'.ret = -1

\* C32: whenever InitRNGBBSModulus returns -1, the modulus stored in the
\* context is the value it had before the call.
C32_ModulusKept ==
    [][ModulusRefused => ctx'[out'.id].zModulus = ctx[out'.id].zModulus]_vars

\* C32 for the strings that are not parsed: a missing or unparsable
\* string gives -1 and leaves the modulus; a parsed number below 1 gives
\* -1 and is the modulus afterwards.
C32_ModulusKeptUnparsed ==
    [][ModulusRefused =>
         /\ NotPositiveString(out'.sz)
         /\ ctx'[out'.id].zModulus = (IF out'.sz.null \/ ~out'.sz.ok
                                      THEN ctx[out'.id].zModulus ELSE out'.sz.val)]_vars

\* InitRNGBBSModulus("-21") returned -1 and the modulus of the context is
\* -21
C32_Witness ==
    /\ out.op = "InitRNGBBSModulus" /\ out.sz = Num(0 - 21)
    /\ out.ret = -1
    /\ ctx[out.id].zModulus = 0 - 21

\* the generators a number seeds
NumberSeeded == {RNG_BBS, RNG_ISAAC, RNG_MD5, RNG_MERSENNE}

\* seeds of one word: 0, 3, UINT_MAX
WordSeeds == {U32Zero, U32(1, 1), U32Max}

\* the generator state InitRNGSeed(n) leaves in the context c
StateBySeed(n, rngx, c) == BackendState(rngx, InitRNGSeed(n, rngx, c).ctx)

\* the generator state InitRNGSeedMP leaves in c for the same number
StateBySeedMP(n, rngx, c) == BackendState(rngx, InitRNGSeedMP(MpFromU32(n), rngx, c).ctx)

\* InitRNGSeedLong has seeded a generator with a number of one word
LongSeededWord ==
    /\ out.op = "InitRNGSeedLong" /\ out.returned /\ out.ret = 0
    /\ out.rngx \in NumberSeeded
    /\ Len(out.sz.mag) <= 1

\* C33: for a number n of 0..UINT_MAX and each of RNG_BBS, RNG_ISAAC,
\* RNG_MD5 and RNG_MERSENNE, seeding by InitRNGSeed(n) and seeding by
\* InitRNGSeedMP or InitRNGSeedLong with n leave the same generator state.
C33_SeedPathsAgree ==
    /\ LongSeededWord =>
          BackendState(out.rngx, ctx[out.id])
            = StateBySeed(MpLowU32(out.sz.mag), out.rngx, ctx[out.id])
    /\ \A i \in CtxIds, n \in WordSeeds :
          rng[i] \in NumberSeeded =>
              StateBySeedMP(n, rng[i], ctx[i]) = StateBySeed(n, rng[i], ctx[i])

\* C33 where the two paths do agree: RNG_BBS and RNG_MERSENNE for every
\* number of one word, RNG_MD5 for every one but UINT_MAX, RNG_ISAAC for 0.
C33_SeedPathsAgreeSome ==
    \A i \in CtxIds, n \in WordSeeds :
        (\/ rng[i] \in {RNG_BBS, RNG_MERSENNE}
         \/ rng[i] = RNG_MD5 /\ n # U32Max
         \/ rng[i] = RNG_ISAAC /\ n = U32Zero)
          => StateBySeedMP(n, rng[i], ctx[i]) = StateBySeed(n, rng[i], ctx[i])

\* InitRNGSeedLong("3") has seeded RNG_ISAAC with the key 3, 0, 0, ..,
\* where InitRNGSeed(3) gives the key 3, 3, 3, ..; and on RNG_MD5 the seed
\* UINT_MAX becomes 0 by InitRNGSeedMP
C33_Witness ==
    /\ LongSeededWord /\ out.rngx = RNG_ISAAC
    /\ out.sz.mag = << U32(1, 1) >>
    /\ ctx[out.id].rc = irandinit(KeyArray(<< U32(1, 1) >>, U32Zero))
    /\ InitRNGSeed(U32(1, 1), RNG_ISAAC, ctx[out.id]).ctx.rc = irandinit(KeyArray(<< >>, U32(1, 1)))
    /\ StateBySeedMP(U32Max, RNG_MD5, ctx[out.id]) = << U32Zero >>
    /\ StateBySeed(U32Max, RNG_MD5, ctx[out.id]) = << U32Max >>

\* C34: in any sequence of OpenDiceFile, RollDice on RNG_FILE and
\* CloseRNG(RNG_FILE) on one context every stream OpenDiceFile opened is
\* closed once: OpenDiceFile never replaces a stream that is still open,
\* CloseRNG never closes a stream that is closed already, and ReadDiceFile
\* never reads from a stream that has been closed.
C34_HandlesClosedOnce ==
    /\ out.op = "OpenDiceFile" => out.fDice.st # "open"
    /\ out.op = "CloseRNG" => out.fDice.st # "closed"
    /\ (out.op = "RollDice" /\ out.rngx = RNG_FILE) => out.fDice.st # "closed"

\* C34 for what the code does keep: a stream that is open is closed by
\* CloseRNG, a roll never changes which stream the context holds, and a
\* context that never had a file has nothing closed.
C34_HandlesKept ==
    /\ out.op = "CloseRNG" => ctx[out.id].fDice.st # "open"
    /\ (out.op = "CloseRNG" /\ out.fDice.st = "null") => ctx[out.id].fDice = FileNull
    /\ (out.op = "RollDice" /\ out.returned) => ctx[out.id].fDice.name = out.fDice.name

\* OpenDiceFile replaced the open stream of "f1936" by that of "f52": the
\* first is open still and no pointer to it is left
C34_Witness ==
    /\ out.op = "OpenDiceFile" /\ out.sz = "f52"
    /\ out.fDice.st = "open" /\ out.fDice.name = "f1936"
    /\ ctx[out.id].fDice = [st |-> "open", name |-> "f52", pos |-> 0]

\* CloseRNG was called on a stream that CloseRNG had closed before
C34_ClosedTwice == out.op = "CloseRNG" /\ out.fDice.st = "closed"

\* RollDice read dice from a stream that had been closed, and returned them
C34_ReadClosed ==
    /\ out.op = "RollDice" /\ out.rngx = RNG_FILE /\ out.fDice.st = "closed"
    /\ out.returned /\ Len(out.attempts) = 1

==========================================================================
